---- MODULE Spec2Model ----
(***************************************************************************)
(* A model of jetporch's inventory Host (src/inventory/hosts.rs): the      *)
(* handler-notify sets, the per-task checksum cache, the OS classification,*)
(* the group membership and the variable blending; of the command library  *)
(* (src/tasks/cmd_library.rs); of the templar (src/playbooks/templar.rs);  *)
(* and of the evaluation and the dispatch of the shell, echo, copy,        *)
(* template and git tasks (src/modules, src/tasks/logic.rs) against a      *)
(* managed host.                                                           *)
(*                                                                         *)
(* Strings that the code inspects character by character (the uname probe) *)
(* are sequences of one-character strings.  A YAML value is a record:      *)
(* [s |-> scalar] for a scalar, [m |-> f] for a mapping, f a function from *)
(* key strings to YAML values.  A Rust HashMap is a function whose DOMAIN  *)
(* is the set of keys present; Option is <<>> (None) or <<x>> (Some(x)).   *)
(***************************************************************************)
EXTENDS Integers, Sequences, FiniteSets, TLC

VARIABLES
    notified_handlers,       \* Host.notified_handlers : play number -> set of signals
    checksum_cache,          \* Host.checksum_cache : path -> checksum
    checksum_cache_task_id,  \* Host.checksum_cache_task_id
    os_type,                 \* Host.os_type : Option<HostOSType>
    variables,               \* Host.variables : serde_yaml::Mapping
    facts,                   \* Host.facts : serde_yaml::Value (a mapping)
    groups,                  \* Host.groups : the names of the host's direct groups
    group_parents,           \* per Group: the names of its parent groups
    group_variables,         \* per Group: its own variables
    walk_stack,              \* get_ancestor_groups in progress: the frames of the recursion
    walk_pc,                 \* "running" while that call is in progress, then "done"
    raised,                  \* history: the (play, signal) pairs notify was called with
    stored_under,            \* history: per cached path, the task id current when it was stored
    highest_task_id,         \* history: the highest task id get_checksum_cache was called with
    call,                    \* history: the last call on the host, its arguments and result
    old,                     \* history: the host's fields as they were before that call
    lib_args,                \* command library: the function about to be called and its arguments
    lib_pc,                  \* "ready" before that call, "done" after it
    action,                  \* the Action that evaluate produced for the task in hand
    remote,                  \* the managed host behind the connection: its files and repository
    remote_log,              \* the remote operations of the last dispatch, in order
    dispatched               \* history: the last three dispatches of a followed run

vars == <<notified_handlers, checksum_cache, checksum_cache_task_id, os_type,
          variables, facts, groups, group_parents, group_variables,
          walk_stack, walk_pc, raised, stored_under, highest_task_id,
          call, old,
          lib_args, lib_pc, action, remote, remote_log, dispatched>>

----------------------------------------------------------------------------
(* Bounds of the model *)

MaxTaskId == 3
MaxPlay == 1
NumGroups == 2
MaxChain == 3
MaxDepthLimit == 2

TaskIds   == 0..MaxTaskId
Plays     == 0..MaxPlay
Paths     == {"/p", "/q"}
Checksums == {"x", "y"}
Signals   == {"restart", "reload"}
GroupNames == 1..NumGroups

----------------------------------------------------------------------------
(* Values *)

None    == <<>>
Some(x) == <<x>>

EmptyMap == <<>>

\* HostOSType, and None for an unclassified host
HostOSType == {"Linux", "MacOS"}

\* str::starts_with
StartsWith(s, prefix) ==
    /\ Len(s) >= Len(prefix)
    /\ SubSeq(s, 1, Len(prefix)) = prefix

StrLinux  == <<"L", "i", "n", "u", "x">>
StrDarwin == <<"D", "a", "r", "w", "i", "n">>

\* the host's own fields, as one record
HostState ==
    [ notified_handlers      |-> notified_handlers,
      checksum_cache         |-> checksum_cache,
      checksum_cache_task_id |-> checksum_cache_task_id,
      os_type                |-> os_type,
      variables              |-> variables,
      facts                  |-> facts,
      groups                 |-> groups ]

\* every call records itself and the state it started from
Record(c) ==
    /\ call' = c
    /\ old' = HostState

\* what a call leaves alone, by part of the host
FrameNotify == UNCHANGED <<notified_handlers, raised>>
FrameCache  == UNCHANGED <<checksum_cache, checksum_cache_task_id, stored_under,
                           highest_task_id>>
FrameOs     == UNCHANGED os_type
FrameVars   == UNCHANGED <<variables, facts>>
\* the Group objects are written at inventory construction only
FrameGroups == UNCHANGED <<groups, group_parents, group_variables>>
FrameWalk   == UNCHANGED <<walk_stack, walk_pc>>
\* the task layer (command library, actions) is no part of the host
FrameTask   == UNCHANGED <<lib_args, lib_pc, action, remote, remote_log, dispatched>>

\* no call of the task layer is under way
TaskIdle ==
    /\ lib_args = [fn |-> "none"]
    /\ lib_pc = "done"
    /\ action = [module |-> "none"]
    /\ remote = [file |-> <<>>]
    /\ remote_log = <<>>
    /\ dispatched = <<>>

----------------------------------------------------------------------------
(* Host::new *)

HostNew ==
    /\ notified_handlers = EmptyMap
    /\ checksum_cache = EmptyMap
    /\ checksum_cache_task_id = 0
    /\ os_type = None
    /\ variables = [m |-> EmptyMap]
    /\ facts = [m |-> EmptyMap]
    /\ groups = {}
    /\ raised = {}
    /\ stored_under = EmptyMap
    /\ highest_task_id = 0
    /\ walk_stack = <<>>
    /\ walk_pc = "done"
    /\ call = [op |-> "new"]
    /\ old = HostState

----------------------------------------------------------------------------
(* Handler notify *)

\* a notify that takes back a signal that is already raised
NotifyInsertToggles(nh, play_number, signal) ==
    [p \in DOMAIN nh \cup {play_number} |->
        IF p # play_number THEN nh[p]
        ELSE IF p \notin DOMAIN nh THEN {signal}
        ELSE IF signal \in nh[p] THEN nh[p] \ {signal}
        ELSE nh[p] \cup {signal}]

\* a notify that starts the play's entry afresh on every call
NotifyInsertResetsEntry(nh, play_number, signal) ==
    [p \in DOMAIN nh \cup {play_number} |->
        IF p = play_number THEN {signal} ELSE nh[p]]

\* a notify that raises the signal in every play that has an entry
NotifyInsertEveryPlay(nh, play_number, signal) ==
    [p \in DOMAIN nh \cup {play_number} |->
        IF p \in DOMAIN nh THEN nh[p] \cup {signal} ELSE {signal}]

\* notify: the entry of play_number, created empty when absent, gains signal
NotifyInsert(nh, play_number, signal) ==
    LET withEntry == IF play_number \in DOMAIN nh
                     THEN nh
                     ELSE nh @@ (play_number :> {})
    IN  [withEntry EXCEPT ![play_number] = @ \cup {signal}]

IsNotifiedIn(nh, play_number, signal) ==
    IF play_number \in DOMAIN nh
    THEN signal \in nh[play_number]
    ELSE FALSE

notify(play_number, signal) ==
    /\ notified_handlers' = NotifyInsert(notified_handlers, play_number, signal)
    /\ raised' = raised \cup {<<play_number, signal>>}
    /\ Record([op |-> "notify", play_number |-> play_number, signal |-> signal])
    /\ FrameCache
    /\ FrameOs
    /\ FrameVars
    /\ FrameGroups
    /\ FrameWalk
    /\ FrameTask

is_notified(play_number, signal) ==
    /\ Record([op |-> "is_notified", play_number |-> play_number, signal |-> signal,
               ret |-> IsNotifiedIn(notified_handlers, play_number, signal)])
    /\ FrameNotify
    /\ FrameCache
    /\ FrameOs
    /\ FrameVars
    /\ FrameGroups
    /\ FrameWalk
    /\ FrameTask

----------------------------------------------------------------------------
(* Checksum cache *)

\* a cache that keeps the first checksum stored for a path
CacheInsertKeepsFirst(cache, path, checksum) ==
    IF path \in DOMAIN cache
    THEN cache
    ELSE [p \in DOMAIN cache \cup {path} |-> IF p = path THEN checksum ELSE cache[p]]

CacheInsert(cache, path, checksum) ==
    [p \in DOMAIN cache \cup {path} |-> IF p = path THEN checksum ELSE cache[p]]

set_checksum_cache(path, checksum) ==
    /\ checksum_cache' = CacheInsert(checksum_cache, path, checksum)
    /\ stored_under' = CacheInsert(stored_under, path, checksum_cache_task_id)
    /\ Record([op |-> "set_checksum_cache", path |-> path, checksum |-> checksum])
    /\ FrameNotify
    /\ UNCHANGED <<checksum_cache_task_id, highest_task_id>>
    /\ FrameOs
    /\ FrameVars
    /\ FrameGroups
    /\ FrameWalk
    /\ FrameTask

\* a lookup that takes the id it is given, higher or not
CacheTaskIdAfterGetTakesAny(task_id) == task_id

\* lines 87-90: a lookup from a higher task id takes the id and clears the cache
CacheTaskIdAfterGet(task_id) ==
    IF task_id > checksum_cache_task_id THEN task_id ELSE checksum_cache_task_id

\* a lookup that takes the higher id and forgets to clear
CacheAfterGetKeepsEntries(task_id) == checksum_cache

CacheAfterGet(task_id) ==
    IF task_id > checksum_cache_task_id THEN EmptyMap ELSE checksum_cache

\* lines 91-97: the lookup proper
CacheLookup(cache, path) ==
    IF path \in DOMAIN cache THEN Some(cache[path]) ELSE None

get_checksum_cache(task_id, path) ==
    /\ checksum_cache_task_id' = CacheTaskIdAfterGet(task_id)
    /\ checksum_cache' = CacheAfterGet(task_id)
    /\ stored_under' = [p \in DOMAIN checksum_cache' |-> stored_under[p]]
    /\ highest_task_id' = IF task_id > highest_task_id THEN task_id ELSE highest_task_id
    /\ Record([op |-> "get_checksum_cache", task_id |-> task_id, path |-> path,
               ret |-> CacheLookup(checksum_cache', path)])
    /\ FrameNotify
    /\ FrameOs
    /\ FrameVars
    /\ FrameGroups
    /\ FrameWalk
    /\ FrameTask

----------------------------------------------------------------------------
(* OS classification *)

\* str::contains
Contains(s, sub) ==
    \E i \in 1..(Len(s) - Len(sub) + 1) : SubSeq(s, i, i + Len(sub) - 1) = sub

\* a classification that looks for the name anywhere in the probe
OsInfoContains(uname_output) ==
    IF Contains(uname_output, StrLinux) THEN [ok |-> TRUE, os |-> "Linux"]
    ELSE IF Contains(uname_output, StrDarwin) THEN [ok |-> TRUE, os |-> "MacOS"]
    ELSE [ok |-> FALSE, err |-> uname_output]

\* Ok(os) carries the classification chosen, Err the message's argument
OsInfo(uname_output) ==
    IF StartsWith(uname_output, StrLinux) THEN [ok |-> TRUE, os |-> "Linux"]
    ELSE IF StartsWith(uname_output, StrDarwin) THEN [ok |-> TRUE, os |-> "MacOS"]
    ELSE [ok |-> FALSE, err |-> uname_output]

set_os_info(uname_output) ==
    LET r == OsInfo(uname_output) IN
    /\ os_type' = IF r.ok THEN Some(r.os) ELSE os_type
    /\ Record([op |-> "set_os_info", uname_output |-> uname_output,
               ret |-> IF r.ok THEN [ok |-> TRUE] ELSE r])
    /\ FrameNotify
    /\ FrameCache
    /\ FrameVars
    /\ FrameGroups
    /\ FrameWalk
    /\ FrameTask

----------------------------------------------------------------------------
(* YAML values and the deep merge *)

Scalar(x)  == [s |-> x]
Mapping(f) == [m |-> f]

IsMapping(v) == "m" \in DOMAIN v

\* a blend that replaces a key of the left-hand mapping by the right-hand
\* value whole, nested mappings included
BlendShallow(a, b) ==
    IF IsMapping(a) /\ IsMapping(b)
    THEN Mapping([k \in DOMAIN a.m \cup DOMAIN b.m |->
                    IF k \in DOMAIN b.m THEN b.m[k] ELSE a.m[k]])
    ELSE b

\* util::yaml::blend_variables(a, b): two mappings merge key by key, recursively;
\* in every other case the right-hand value replaces the left-hand one
RECURSIVE Blend(_, _)
Blend(a, b) ==
    IF IsMapping(a) /\ IsMapping(b)
    THEN Mapping([k \in DOMAIN a.m \cup DOMAIN b.m |->
                    IF k \notin DOMAIN b.m THEN a.m[k]
                    ELSE IF k \notin DOMAIN a.m THEN b.m[k]
                    ELSE Blend(a.m[k], b.m[k])])
    ELSE b

\* serde_yaml::Mapping::insert of every pair of mapping into vs
MappingInsertAll(vs, mapping) ==
    Mapping([k \in DOMAIN vs.m \cup DOMAIN mapping.m |->
                IF k \in DOMAIN mapping.m THEN mapping.m[k] ELSE vs.m[k]])

----------------------------------------------------------------------------
(* Groups and ancestors *)

\* depth limits the host passes on
BlendDepthLimit      == 20
NamesDepthLimit      == 20
MembershipDepthLimit == 10

\* Group::get_ancestor_groups(depth_limit): every parent, and, while the depth
\* limit is not used up, every ancestor of that parent one level further
RECURSIVE GroupAncestors(_, _)
GroupAncestors(g, depth_limit) ==
    group_parents[g] \cup
    UNION { IF depth_limit > 0 THEN GroupAncestors(p, depth_limit - 1) ELSE {}
            : p \in group_parents[g] }

\* Host::get_ancestor_groups(depth_limit): every direct group and its ancestors
HostAncestors(depth_limit) ==
    groups \cup UNION { GroupAncestors(g, depth_limit) : g \in groups }

\* the orders in which a HashMap holding the keys S may be iterated
RECURSIVE IterationOrders(_)
IterationOrders(S) ==
    IF S = {} THEN {<<>>}
    ELSE UNION { { <<x>> \o rest : rest \in IterationOrders(S \ {x}) } : x \in S }

get_groups ==
    /\ Record([op |-> "get_groups", ret |-> groups])
    /\ FrameNotify
    /\ FrameCache
    /\ FrameOs
    /\ FrameVars
    /\ FrameGroups
    /\ FrameWalk
    /\ FrameTask

has_group(group_name) ==
    /\ Record([op |-> "has_group", group_name |-> group_name,
               ret |-> group_name \in groups])
    /\ FrameNotify
    /\ FrameCache
    /\ FrameOs
    /\ FrameVars
    /\ FrameGroups
    /\ FrameWalk
    /\ FrameTask

\* a has_ancestor_group that looks at the direct groups and their parents only
HasAncestorGroupParentsOnly(group_name) ==
    \E k \in groups :
        \/ k = group_name
        \/ group_name \in group_parents[k]

HasAncestorGroup(group_name) ==
    \E k \in groups :
        \/ k = group_name
        \/ group_name \in GroupAncestors(k, MembershipDepthLimit)

has_ancestor_group(group_name) ==
    /\ Record([op |-> "has_ancestor_group", group_name |-> group_name,
               ret |-> HasAncestorGroup(group_name)])
    /\ FrameNotify
    /\ FrameCache
    /\ FrameOs
    /\ FrameVars
    /\ FrameGroups
    /\ FrameWalk
    /\ FrameTask

add_group(name) ==
    /\ groups' = groups \cup {name}
    /\ Record([op |-> "add_group", name |-> name])
    /\ FrameNotify
    /\ FrameCache
    /\ FrameOs
    /\ FrameVars
    /\ UNCHANGED <<group_parents, group_variables>>
    /\ FrameWalk
    /\ FrameTask

get_ancestor_groups(depth_limit) ==
    /\ Record([op |-> "get_ancestor_groups", depth_limit |-> depth_limit,
               ret |-> HostAncestors(depth_limit)])
    /\ FrameNotify
    /\ FrameCache
    /\ FrameOs
    /\ FrameVars
    /\ FrameGroups
    /\ FrameWalk
    /\ FrameTask

get_ancestor_group_names ==
    /\ Record([op |-> "get_ancestor_group_names",
               ret |-> HostAncestors(NamesDepthLimit)])
    /\ FrameNotify
    /\ FrameCache
    /\ FrameOs
    /\ FrameVars
    /\ FrameGroups
    /\ FrameWalk
    /\ FrameTask

----------------------------------------------------------------------------
(* get_ancestor_groups step by step: the recursion through the groups as a   *)
(* stack of frames.  A frame is one call in progress: self is 0 for the call *)
(* on the host and the group's name for a call on a group, todo the entries  *)
(* of its HashMap still to be iterated, results what it has collected.       *)

WalkFrame(self, depth_limit, todo) ==
    [self |-> self, depth_limit |-> depth_limit, todo |-> todo, results |-> {}]

\* the recursion is at most depth_limit + 2 frames deep; the guard of a visit
\* keeps the stack of a recursion that does not stop finite
WalkStackCap == MaxDepthLimit + 4

WalkTop == walk_stack[Len(walk_stack)]

WalkReplaceTop(frame) ==
    [walk_stack EXCEPT ![Len(walk_stack)] = frame]

\* Host::get_ancestor_groups is called
WalkCall(depth_limit) ==
    /\ walk_pc = "done"
    /\ walk_pc' = "running"
    /\ walk_stack' = <<WalkFrame(0, depth_limit, groups)>>
    /\ UNCHANGED <<call, old>>
    /\ FrameNotify
    /\ FrameCache
    /\ FrameOs
    /\ FrameVars
    /\ FrameGroups
    /\ FrameTask

\* lines 158-160: the host takes direct group k and calls its
\* get_ancestor_groups with the depth limit it was given
HostVisit(k) ==
    walk_stack' =
        Append(WalkReplaceTop([WalkTop EXCEPT !.todo = @ \ {k},
                                              !.results = @ \cup {k}]),
               WalkFrame(k, WalkTop.depth_limit, group_parents[k]))

\* a group that recurses whatever the depth limit
GroupVisitUnbounded(k) ==
    walk_stack' =
        Append(WalkReplaceTop([WalkTop EXCEPT !.todo = @ \ {k},
                                              !.results = @ \cup {k}]),
               WalkFrame(k, WalkTop.depth_limit, group_parents[k]))

\* Group::get_ancestor_groups: a group takes parent k and, while the depth
\* limit is not used up, calls the parent with one level less
GroupVisit(k) ==
    LET visited == WalkReplaceTop([WalkTop EXCEPT !.todo = @ \ {k},
                                                  !.results = @ \cup {k}])
    IN  walk_stack' =
            IF WalkTop.depth_limit > 0
            THEN Append(visited,
                        WalkFrame(k, WalkTop.depth_limit - 1, group_parents[k]))
            ELSE visited

\* the next entry of the HashMap being iterated, whichever that is
WalkVisit ==
    /\ walk_pc = "running"
    /\ Len(walk_stack) < WalkStackCap
    /\ \E k \in WalkTop.todo :
          IF WalkTop.self = 0 THEN HostVisit(k) ELSE GroupVisit(k)
    /\ UNCHANGED <<walk_pc, call, old>>
    /\ FrameNotify
    /\ FrameCache
    /\ FrameOs
    /\ FrameVars
    /\ FrameGroups
    /\ FrameTask

\* lines 161 and 164: a call that has iterated everything returns, and its
\* caller inserts what it returned into its own results
WalkReturn ==
    /\ walk_pc = "running"
    /\ WalkTop.todo = {}
    /\ IF Len(walk_stack) = 1
       THEN /\ walk_stack' = <<>>
            /\ walk_pc' = "done"
            /\ Record([op |-> "get_ancestor_groups",
                       depth_limit |-> WalkTop.depth_limit,
                       ret |-> WalkTop.results])
       ELSE /\ walk_stack' =
                 LET caller == walk_stack[Len(walk_stack) - 1]
                 IN  [SubSeq(walk_stack, 1, Len(walk_stack) - 1)
                        EXCEPT ![Len(walk_stack) - 1] =
                           [caller EXCEPT !.results = @ \cup WalkTop.results]]
            /\ UNCHANGED <<walk_pc, call, old>>
    /\ FrameNotify
    /\ FrameCache
    /\ FrameOs
    /\ FrameVars
    /\ FrameGroups
    /\ FrameTask

----------------------------------------------------------------------------
(* Variables and facts *)

get_variables ==
    /\ Record([op |-> "get_variables", ret |-> variables])
    /\ FrameNotify
    /\ FrameCache
    /\ FrameOs
    /\ FrameVars
    /\ FrameGroups
    /\ FrameWalk
    /\ FrameTask

set_variables(mapping) ==
    /\ variables' = mapping
    /\ Record([op |-> "set_variables", mapping |-> mapping])
    /\ FrameNotify
    /\ FrameCache
    /\ FrameOs
    /\ UNCHANGED <<facts>>
    /\ FrameGroups
    /\ FrameWalk
    /\ FrameTask

update_variables(mapping) ==
    /\ variables' = MappingInsertAll(variables, mapping)
    /\ Record([op |-> "update_variables", mapping |-> mapping])
    /\ FrameNotify
    /\ FrameCache
    /\ FrameOs
    /\ UNCHANGED <<facts>>
    /\ FrameGroups
    /\ FrameWalk
    /\ FrameTask

\* the group layers, blended in the order the ancestor HashMap is iterated in
RECURSIVE BlendGroups(_, _)
BlendGroups(blended, order) ==
    IF order = <<>> THEN blended
    ELSE BlendGroups(Blend(blended, group_variables[Head(order)]), Tail(order))

\* a blend that lets the host's own variables override its facts
BlendedVariablesOverFacts(order) ==
    Blend(Blend(BlendGroups(Mapping(EmptyMap), order), facts), variables)

\* lines 186-194: ancestors first, then the host's own variables, then its facts
Blended(order) ==
    Blend(Blend(BlendGroups(Mapping(EmptyMap), order), variables), facts)

\* a get_blended_variables that keeps the blend as the host's variables
get_blended_variables_keeps_blend ==
    /\ \E order \in IterationOrders(HostAncestors(BlendDepthLimit)) :
          /\ Record([op |-> "get_blended_variables", order |-> order,
                     ret |-> Blended(order)])
          /\ variables' = Blended(order)
    /\ FrameNotify
    /\ FrameCache
    /\ FrameOs
    /\ UNCHANGED <<facts>>
    /\ FrameGroups
    /\ FrameWalk
    /\ FrameTask

get_blended_variables ==
    /\ \E order \in IterationOrders(HostAncestors(BlendDepthLimit)) :
          Record([op |-> "get_blended_variables", order |-> order,
                  ret |-> Blended(order)])
    /\ FrameNotify
    /\ FrameCache
    /\ FrameOs
    /\ FrameVars
    /\ FrameGroups
    /\ FrameWalk
    /\ FrameTask

update_facts(mapping) ==
    /\ facts' = Blend(facts, mapping)
    /\ Record([op |-> "update_facts", mapping |-> mapping])
    /\ FrameNotify
    /\ FrameCache
    /\ FrameOs
    /\ UNCHANGED <<variables>>
    /\ FrameGroups
    /\ FrameWalk
    /\ FrameTask

update_facts2(mapping) ==
    /\ facts' = Blend(facts, mapping)
    /\ Record([op |-> "update_facts2", mapping |-> mapping])
    /\ FrameNotify
    /\ FrameCache
    /\ FrameOs
    /\ UNCHANGED <<variables>>
    /\ FrameGroups
    /\ FrameWalk
    /\ FrameTask

----------------------------------------------------------------------------
(* Inventories: the Group objects as inventory construction leaves them *)

\* a chain 1 -> 2 -> ... -> NumGroups, every group defining K
ChainInventory ==
    /\ group_parents = [g \in GroupNames |-> IF g < NumGroups THEN {g + 1} ELSE {}]
    /\ group_variables = [g \in GroupNames |-> Mapping("K" :> Scalar(g))]

----------------------------------------------------------------------------
(* The checksum cache alone: a new host, any sequence of set and get calls *)

InitCache ==
    /\ HostNew
    /\ TaskIdle
    /\ ChainInventory

NextCache ==
    \/ \E path \in Paths, checksum \in Checksums : set_checksum_cache(path, checksum)
    \/ \E task_id \in TaskIds, path \in Paths : get_checksum_cache(task_id, path)

SpecCache == InitCache /\ [][NextCache]_vars

----------------------------------------------------------------------------
(* The whole host: a new host, any sequence of calls of the methods that    *)
(* write to it (and of is_notified), each with arguments from a small set   *)

\* uname probes: Linux and Darwin ones, and ones that merely resemble them
Probes ==
    { StrLinux \o <<" ", "5">>,
      StrDarwin \o <<" ", "2">>,
      <<" ">> \o StrLinux,
      <<"L", "i", "n", "u">>,
      <<>> }

HostPaths     == {"/p"}
HostChecksums == {"x"}
HostTaskIds   == 0..1

Init ==
    /\ HostNew
    /\ TaskIdle
    /\ ChainInventory

Next ==
    \/ \E play_number \in Plays, signal \in Signals : notify(play_number, signal)
    \/ \E play_number \in Plays, signal \in Signals : is_notified(play_number, signal)
    \/ \E path \in HostPaths, checksum \in HostChecksums : set_checksum_cache(path, checksum)
    \/ \E task_id \in HostTaskIds, path \in HostPaths : get_checksum_cache(task_id, path)
    \/ \E uname_output \in Probes : set_os_info(uname_output)
    \/ \E name \in {1} : add_group(name)
    \/ \E mapping \in {Mapping(EmptyMap)} : set_variables(mapping)
    \/ \E mapping \in {Mapping("K" :> Scalar(2))} : update_variables(mapping)
    \/ \E mapping \in {Mapping("K" :> Mapping("a" :> Scalar(1)))} : update_facts(mapping)
    \/ \E mapping \in {Mapping("K" :> Mapping("a" :> Scalar(1)))} : update_facts2(mapping)

Spec == Init /\ [][Next]_vars

----------------------------------------------------------------------------
(* Inventory and blending: a host as inventory loading and earlier tasks    *)
(* may have left it (its groups, variables and facts drawn from small sets), *)
(* then any sequence of reads, with the odd write in between                 *)

NoParents == [g \in GroupNames |-> {}]
Chain     == [g \in GroupNames |-> IF g < NumGroups THEN {g + 1} ELSE {}]
Ring      == [g \in GroupNames |-> {(g % NumGroups) + 1}]

InventoryGraphs == {NoParents, Chain, Ring}

GroupMappings ==
    { Mapping(EmptyMap),
      Mapping("K" :> Scalar(3)),
      Mapping("K" :> Scalar(4)),
      Mapping("K" :> Mapping("b" :> Scalar(3) @@ "c" :> Scalar(3))) }

VariableMappings ==
    { Mapping(EmptyMap),
      Mapping("K" :> Scalar(2)),
      Mapping("K" :> Mapping("a" :> Scalar(2) @@ "b" :> Scalar(2))) }

FactMappings ==
    { Mapping(EmptyMap),
      Mapping("K" :> Scalar(1)),
      Mapping("K" :> Mapping("a" :> Scalar(1))) }

InitInventory ==
    /\ notified_handlers = EmptyMap
    /\ checksum_cache = EmptyMap
    /\ checksum_cache_task_id = 0
    /\ os_type = None
    /\ raised = {}
    /\ stored_under = EmptyMap
    /\ highest_task_id = 0
    /\ walk_stack = <<>>
    /\ walk_pc = "done"
    /\ group_parents \in InventoryGraphs
    /\ group_variables \in [GroupNames -> GroupMappings]
    /\ groups \in SUBSET GroupNames
    /\ variables \in VariableMappings
    /\ facts \in FactMappings
    /\ call = [op |-> "new"]
    /\ old = HostState
    /\ TaskIdle

NextInventory ==
    \/ get_groups
    \/ \E group_name \in GroupNames : has_group(group_name)
    \/ \E group_name \in GroupNames : has_ancestor_group(group_name)
    \/ \E depth_limit \in {0, 1} : get_ancestor_groups(depth_limit)
    \/ get_ancestor_group_names
    \/ get_variables
    \/ get_blended_variables
    \/ \E mapping \in {Mapping(EmptyMap)} : set_variables(mapping)
    \/ \E mapping \in {Mapping("K" :> Mapping("a" :> Scalar(1)))} : update_facts2(mapping)

SpecInventory == InitInventory /\ [][NextInventory]_vars

----------------------------------------------------------------------------
(* The ancestor traversal: group graphs with and without cycles, a host in   *)
(* any of the groups, and get_ancestor_groups called again and again.  The   *)
(* call runs on the caller's thread, which keeps running: weak fairness of   *)
(* its steps.                                                                *)

WalkGroupNames == 1..MaxChain

\* 1 -> 2 -> ... -> MaxChain
LongChain == [g \in WalkGroupNames |-> IF g < MaxChain THEN {g + 1} ELSE {}]
\* 1 -> 2 -> ... -> MaxChain -> 1
LongRing  == [g \in WalkGroupNames |-> {(g % MaxChain) + 1}]
\* A ancestor of B and B ancestor of A
TwoCycle  == [g \in WalkGroupNames |-> IF g = 1 THEN {2} ELSE IF g = 2 THEN {1} ELSE {}]
\* 1 and 2 each a parent of both, itself included
Tangle    == [g \in WalkGroupNames |-> IF g \in {1, 2} THEN {1, 2} ELSE {}]
\* 1 -> {2, 3}, both -> MaxChain
Diamond   == [g \in WalkGroupNames |->
                 IF g = 1 THEN {2, 3} ELSE IF g < MaxChain THEN {MaxChain} ELSE {}]

WalkGraphs == {LongChain, LongRing, TwoCycle, Tangle, Diamond}

InitWalk ==
    /\ HostNew
    /\ TaskIdle
    /\ group_parents \in WalkGraphs
    /\ group_variables = [g \in WalkGroupNames |-> Mapping(EmptyMap)]

\* the call borrows the host: nothing writes to it while the call runs
NextWalk ==
    \/ \E name \in {1, 2} : walk_pc = "done" /\ add_group(name)
    \/ \E depth_limit \in 0..MaxDepthLimit : WalkCall(depth_limit)
    \/ WalkVisit
    \/ WalkReturn

SpecWalk == InitWalk /\ [][NextWalk]_vars /\ WF_vars(WalkVisit \/ WalkReturn)

----------------------------------------------------------------------------
(* Properties of the checksum cache *)

\* C1: a get_checksum_cache whose task_id is greater than the highest task id
\* seen so far leaves the cache empty, for every path, and returns None,
\* whatever was stored before.
HigherTaskIdClearsCache ==
    (call.op = "get_checksum_cache" /\ call.task_id > old.checksum_cache_task_id)
        => (checksum_cache = EmptyMap /\ call.ret = None)

\* the lookup came from a higher id while the cache held every path, the one
\* asked for among them
HigherTaskIdClearsCacheWitness ==
    /\ call.op = "get_checksum_cache"
    /\ call.task_id > old.checksum_cache_task_id
    /\ DOMAIN old.checksum_cache = Paths
    /\ checksum_cache = EmptyMap
    /\ call.ret = None

\* C2: set_checksum_cache(path, x) followed by get_checksum_cache(id, path),
\* for an id that a lookup has already been made with (so no higher than the
\* last-seen id), returns Some(x) and leaves the cache as it was.
SameTaskIdGetReturnsLatestSet ==
    [][ ( /\ call.op = "set_checksum_cache"
          /\ call'.op = "get_checksum_cache"
          /\ call'.path = call.path
          /\ call'.task_id <= checksum_cache_task_id )
        => ( /\ call'.ret = Some(call.checksum)
             /\ checksum_cache' = checksum_cache
             /\ checksum_cache_task_id' = checksum_cache_task_id ) ]_vars

\* a lookup under the id of an earlier lookup returned a checksum that replaced
\* nothing: the cache was left alone and had been written under that id
SameTaskIdGetReturnsLatestSetWitness ==
    /\ call.op = "get_checksum_cache"
    /\ call.task_id > 0
    /\ call.task_id = old.checksum_cache_task_id
    /\ call.ret = Some("y")
    /\ checksum_cache = old.checksum_cache
    /\ DOMAIN checksum_cache = Paths

\* C3: a checksum stored while one task id was current is never returned by a
\* get_checksum_cache issued for a different task id.
NoChecksumSharedAcrossTaskIds ==
    (call.op = "get_checksum_cache" /\ call.ret # None)
        => stored_under[call.path] = call.task_id

----------------------------------------------------------------------------
(* Properties of handler notify *)

\* C4: notify is idempotent: after notify(p, s) the signal is raised for p, and
\* a notify(p, s) on a host where s is already raised for p leaves the
\* notified-handler state exactly as it was.
NotifyIdempotent ==
    call.op = "notify"
        => /\ IsNotifiedIn(notified_handlers, call.play_number, call.signal)
           /\ IsNotifiedIn(old.notified_handlers, call.play_number, call.signal)
                 => notified_handlers = old.notified_handlers

\* a repeated notify on a play that holds every signal
NotifyIdempotentWitness ==
    /\ call.op = "notify"
    /\ <<call.play_number, call.signal>> \in raised
    /\ call.play_number \in DOMAIN old.notified_handlers
    /\ old.notified_handlers[call.play_number] = Signals
    /\ notified_handlers = old.notified_handlers

\* C5: notify(p, s) changes the signal set of play p only: is_notified(q, s')
\* is as before for every other play q, and the variables, facts, checksum
\* cache, its task id, the OS type and the groups are untouched.
NotifyScopedToPlay ==
    call.op = "notify"
        => /\ \A q \in Plays \ {call.play_number} : \A s \in Signals :
                 IsNotifiedIn(notified_handlers, q, s)
                    = IsNotifiedIn(old.notified_handlers, q, s)
           /\ DOMAIN notified_handlers \ {call.play_number}
                 = DOMAIN old.notified_handlers \ {call.play_number}
           /\ variables = old.variables
           /\ facts = old.facts
           /\ checksum_cache = old.checksum_cache
           /\ checksum_cache_task_id = old.checksum_cache_task_id
           /\ os_type = old.os_type
           /\ groups = old.groups

\* a notify of a signal that another play has an entry without, on a host
\* whose variables, facts, cache, OS type and groups are all set
NotifyScopedToPlayWitness ==
    /\ call.op = "notify"
    /\ \E q \in DOMAIN notified_handlers \ {call.play_number} :
          call.signal \notin notified_handlers[q]
    /\ variables # Mapping(EmptyMap)
    /\ facts # Mapping(EmptyMap)
    /\ checksum_cache # EmptyMap
    /\ checksum_cache_task_id > 0
    /\ os_type # None
    /\ groups # {}

\* C6: a signal is notified for a play exactly when notify was called with that
\* play and signal at some earlier point, whatever else was called since;
\* is_notified reports just that and changes nothing.
NotifiedIffRaised ==
    /\ \A p \in Plays, s \in Signals :
          (p \in DOMAIN notified_handlers /\ s \in notified_handlers[p])
             <=> <<p, s>> \in raised
    /\ call.op = "is_notified"
          => /\ call.ret = (<<call.play_number, call.signal>> \in raised)
             /\ HostState = old

\* is_notified answered true for one play and the signal is not raised for
\* another, after writes to every other part of the host
NotifiedIffRaisedWitness ==
    /\ call.op = "is_notified"
    /\ call.ret = TRUE
    /\ \E q \in Plays : <<q, call.signal>> \notin raised
    /\ variables # Mapping(EmptyMap)
    /\ facts # Mapping(EmptyMap)
    /\ checksum_cache_task_id > 0
    /\ os_type # None

----------------------------------------------------------------------------
(* Properties of the OS classification *)

HasPrefix(s, prefix) ==
    /\ Len(s) >= Len(prefix)
    /\ \A i \in 1..Len(prefix) : s[i] = prefix[i]

\* C10: set_os_info sets os_type to Linux for a probe that starts with "Linux",
\* to MacOS for one that starts with "Darwin", and for every other probe
\* returns an error and leaves the whole host as it was.
SetOsInfoClassifies ==
    call.op = "set_os_info"
        => /\ HasPrefix(call.uname_output, StrLinux)
                => (call.ret.ok /\ os_type = Some("Linux"))
           /\ HasPrefix(call.uname_output, StrDarwin)
                => (call.ret.ok /\ os_type = Some("MacOS"))
           /\ (~HasPrefix(call.uname_output, StrLinux)
                  /\ ~HasPrefix(call.uname_output, StrDarwin))
                => (~call.ret.ok /\ HostState = old)

\* a probe that names Linux, though not at its start, was refused on a host
\* already classified
SetOsInfoClassifiesWitness ==
    /\ call.op = "set_os_info"
    /\ call.uname_output = <<" ">> \o StrLinux
    /\ ~call.ret.ok
    /\ os_type = Some("MacOS")
    /\ old.os_type = Some("MacOS")

----------------------------------------------------------------------------
(* Properties of variable blending *)

Defines(mapping, key) == key \in DOMAIN mapping.m

\* the ancestor groups whose own variables define key
GroupsDefining(key) ==
    { g \in HostAncestors(BlendDepthLimit) : Defines(group_variables[g], key) }

\* C7: in what get_blended_variables returns for K, a fact wins over the
\* host's own variable, which wins over the ancestor groups' variables: a
\* scalar fact is returned as it is; with no fact the host's scalar is; with
\* neither, K is there exactly when an ancestor group defines it and every
\* part of it is some ancestor group's; and where facts and variables both
\* hold a mapping the two are merged key by key, the fact's entry winning.
BlendPrecedence ==
    call.op = "get_blended_variables" =>
      LET ret == call.ret
          K   == "K"
      IN
      /\ (Defines(facts, K) /\ ~IsMapping(facts.m[K]))
            => (Defines(ret, K) /\ ret.m[K] = facts.m[K])
      /\ (~Defines(facts, K) /\ Defines(variables, K) /\ ~IsMapping(variables.m[K]))
            => (Defines(ret, K) /\ ret.m[K] = variables.m[K])
      /\ (~Defines(facts, K) /\ ~Defines(variables, K))
            => /\ Defines(ret, K) <=> GroupsDefining(K) # {}
               /\ Defines(ret, K) =>
                    IF IsMapping(ret.m[K])
                    THEN \A n \in DOMAIN ret.m[K].m :
                            \E g \in GroupsDefining(K) :
                               /\ IsMapping(group_variables[g].m[K])
                               /\ n \in DOMAIN group_variables[g].m[K].m
                               /\ group_variables[g].m[K].m[n] = ret.m[K].m[n]
                    ELSE \E g \in GroupsDefining(K) :
                            group_variables[g].m[K] = ret.m[K]
      /\ ( /\ Defines(facts, K) /\ IsMapping(facts.m[K])
           /\ Defines(variables, K) /\ IsMapping(variables.m[K]) )
            => /\ Defines(ret, K) /\ IsMapping(ret.m[K])
               /\ \A n \in DOMAIN facts.m[K].m :
                     /\ n \in DOMAIN ret.m[K].m
                     /\ ret.m[K].m[n] = facts.m[K].m[n]
               /\ \A n \in DOMAIN variables.m[K].m \ DOMAIN facts.m[K].m :
                     /\ n \in DOMAIN ret.m[K].m
                     /\ ret.m[K].m[n] = variables.m[K].m[n]

\* a blend in which K comes from all three layers: a mapping in the facts, in
\* the host's variables and in an ancestor group that is not a direct group,
\* each with a nested key of its own
BlendPrecedenceWitness ==
    /\ call.op = "get_blended_variables"
    /\ Defines(facts, "K") /\ IsMapping(facts.m["K"])
    /\ Defines(variables, "K") /\ IsMapping(variables.m["K"])
    /\ \E g \in GroupsDefining("K") \ groups : IsMapping(group_variables[g].m["K"])
    /\ call.ret.m["K"] =
          Mapping("a" :> Scalar(1) @@ "b" :> Scalar(2) @@ "c" :> Scalar(3))

\* no two ancestor groups define the same key
NoGroupConflict ==
    \A g, h \in HostAncestors(BlendDepthLimit) :
        g # h => DOMAIN group_variables[g].m \cap DOMAIN group_variables[h].m = {}

BlendLeavesStateAlone ==
    /\ variables' = variables
    /\ facts' = facts
    /\ groups' = groups
    /\ group_parents' = group_parents
    /\ group_variables' = group_variables

\* C8 as stated: get_blended_variables changes no stored state, and two
\* consecutive calls return the same mapping.
BlendReadOnlyAndRepeatable ==
    [][ call'.op = "get_blended_variables"
          => /\ BlendLeavesStateAlone
             /\ call.op = "get_blended_variables" => call'.ret = call.ret ]_vars

\* C8, amended: get_blended_variables changes no stored state, and two
\* consecutive calls return the same mapping when no two ancestor groups
\* define the same key.
BlendReadOnly ==
    [][ call'.op = "get_blended_variables"
          => /\ BlendLeavesStateAlone
             /\ (call.op = "get_blended_variables" /\ NoGroupConflict)
                   => call'.ret = call.ret ]_vars

\* a blend over two ancestor groups, one of which defines K, on a host with
\* variables and facts
BlendReadOnlyWitness ==
    /\ call.op = "get_blended_variables"
    /\ Len(call.order) >= 2
    /\ NoGroupConflict
    /\ GroupsDefining("K") # {}
    /\ variables # Mapping(EmptyMap)
    /\ facts # Mapping(EmptyMap)
    /\ HostState = old

----------------------------------------------------------------------------
(* Properties of the ancestor traversal *)

\* C9: get_ancestor_groups(depth_limit) returns, whatever the group graph:
\* every call that is running comes to its end, the recursion is never more
\* than depth_limit + 2 calls deep, and what is returned are the groups within
\* the depth limit of the host's direct groups, the further ones left out.
AncestorWalkTerminates ==
    /\ [](walk_pc = "running" => Len(walk_stack) <= walk_stack[1].depth_limit + 2)
    /\ [](call.op = "get_ancestor_groups"
             => call.ret = HostAncestors(call.depth_limit))
    /\ (walk_pc = "running") ~> (walk_pc = "done")

\* a call on a host in a cycle of groups returned all of the cycle, and a call
\* on the head of a chain longer than the limit returned the chain cut short
AncestorWalkTerminatesWitness ==
    /\ walk_pc = "done"
    /\ call.op = "get_ancestor_groups"
    /\ groups = {1}
    /\ \/ (group_parents = TwoCycle /\ call.ret = {1, 2})
       \/ (group_parents = LongChain /\ call.depth_limit = 0
              /\ call.ret = {1, 2} /\ MaxChain > 2)

----------------------------------------------------------------------------
(* Properties of the OS classification over a run *)

\* C11: once os_type is Some(t), no later operation on the host changes it,
\* another set_os_info with a different probe included.
OsTypeSetOnce ==
    [][ os_type # None => os_type' = os_type ]_vars

----------------------------------------------------------------------------
(* The command library (src/tasks/cmd_library.rs).  A string is a sequence *)
(* of one-character strings; a Result is [ok |-> TRUE, val |-> v] or        *)
(* [ok |-> FALSE, err |-> e]; an error message built by format! is the      *)
(* record of its text and of the values it interpolates.  The parameter     *)
(* os_type of the builders is host_os_type here.                            *)

Ok(v)  == [ok |-> TRUE, val |-> v]
Err(e) == [ok |-> FALSE, err |-> e]

\* the characters str::trim takes for white space
Whitespace == {" ", "\t", "\n", "\r"}

RECURSIVE TrimStart(_)
TrimStart(s) ==
    IF s # <<>> /\ Head(s) \in Whitespace THEN TrimStart(Tail(s)) ELSE s

RECURSIVE TrimEnd(_)
TrimEnd(s) ==
    IF s # <<>> /\ s[Len(s)] \in Whitespace
    THEN TrimEnd(SubSeq(s, 1, Len(s) - 1))
    ELSE s

\* str::trim
Trim(s) == TrimEnd(TrimStart(s))

\* the grave accent, which a string of this language cannot hold
Backtick == "grave"

\* a strict list without the percent sign
StrictBadWithoutPercent ==
    <<";", "{", "}", "(", ")", "<", ">", "&", "*", "|", "=", "?", "[", "]",
      "$", Backtick>>

\* line 49: the vector bad of screen_general_input_strict
StrictBad ==
    <<";", "{", "}", "(", ")", "<", ">", "&", "*", "|", "=", "?", "[", "]",
      "$", "%", Backtick>>

\* a loose list that has the equals sign as well
LooseBadWithEquals ==
    <<";", "<", ">", "&", "*", "?", "{", "}", "[", "]", "$", Backtick, "=">>

\* a loose list that has the single quote as well
LooseBadWithQuote ==
    <<";", "<", ">", "&", "*", "?", "{", "}", "[", "]", "$", Backtick, "'">>

\* line 67: the array bad of screen_general_input_loose
LooseBad ==
    <<";", "<", ">", "&", "*", "?", "{", "}", "[", "]", "$", Backtick>>

\* the for loop over bad: the index of the first entry that input2 contains,
\* 0 when it contains none
FirstBad(input2, bad) ==
    LET hits == { i \in 1..Len(bad) : Contains(input2, <<bad[i]>>) }
    IN  IF hits = {} THEN 0
        ELSE CHOOSE i \in hits : \A j \in hits : i <= j

\* lines 48-56 and 66-73: trim, refuse the first listed character found,
\* return the trimmed input otherwise
Screen(input, bad, text) ==
    LET input2 == Trim(input)
        i == FirstBad(input2, bad)
    IN  IF i # 0
        THEN Err([text |-> text, input |-> input2, invalid |-> bad[i]])
        ELSE Ok(input2)

screen_general_input_strict(input) ==
    Screen(input, StrictBad, "illegal characters found")

screen_general_input_loose(input) ==
    Screen(input, LooseBad, "illegal characters detected")

screen_path(path) ==
    LET path2 == Trim(path)
        path3 == screen_general_input_strict(path2)
    IN  IF path3.ok THEN Ok(path3.val) ELSE path3

OctalDigits == {"0", "1", "2", "3", "4", "5", "6", "7"}

\* FileAttributesInput::is_octal_string: a string of octal digits
is_octal_string(mode) ==
    /\ mode # <<>>
    /\ \A i \in 1..Len(mode) : mode[i] \in OctalDigits

screen_mode(mode) ==
    IF is_octal_string(mode)
    THEN Ok(mode)
    ELSE Err([text |-> "not an octal string", input |-> mode])

\* format!: the literal pieces of the template with the arguments in between
RECURSIVE Format(_, _)
Format(pieces, args) ==
    IF args = <<>> THEN Head(pieces)
    ELSE Head(pieces) \o Head(args) \o Format(Tail(pieces), Tail(args))

\* a mode query that takes the other family's stat flags
get_mode_command_families_swapped(host_os_type, untrusted_path) ==
    LET path == screen_path(untrusted_path) IN
    IF ~path.ok THEN path
    ELSE IF host_os_type = "Linux"
    THEN Ok(Format(<< <<"s", "t", "a", "t", " ", "-", "f", " ", "'", "%",
                       "A", "'", " ", "'">>,
                   <<"'">> >>,
                   <<path.val>>))
    ELSE Ok(Format(<< <<"s", "t", "a", "t", " ", "-", "-", "f", "o", "r",
                       "m", "a", "t", " ", "'", "%", "a", "'", " ", "'">>,
                   <<"'">> >>,
                   <<path.val>>))

get_mode_command(host_os_type, untrusted_path) ==
    LET path == screen_path(untrusted_path) IN
    IF ~path.ok THEN path
    ELSE IF host_os_type = "Linux"
    THEN Ok(Format(<< <<"s", "t", "a", "t", " ", "-", "-", "f", "o", "r",
                       "m", "a", "t", " ", "'", "%", "a", "'", " ", "'">>,
                   <<"'">> >>,
                   <<path.val>>))
    ELSE Ok(Format(<< <<"s", "t", "a", "t", " ", "-", "f", " ", "'", "%",
                       "A", "'", " ", "'">>,
                   <<"'">> >>,
                   <<path.val>>))

get_sha512_command(host_os_type, untrusted_path) ==
    LET path == screen_path(untrusted_path) IN
    IF ~path.ok THEN path
    ELSE IF host_os_type = "Linux"
    THEN Ok(Format(<< <<"s", "h", "a", "5", "1", "2", "s", "u", "m", " ",
                       "'">>,
                   <<"'">> >>,
                   <<path.val>>))
    ELSE Ok(Format(<< <<"s", "h", "a", "s", "u", "m", " ", "-", "b", " ",
                       "-", "a", " ", "5", "1", "2", " ", "'">>,
                   <<"'">> >>,
                   <<path.val>>))

get_ownership_command(host_os_type, untrusted_path) ==
    LET path == screen_path(untrusted_path) IN
    IF ~path.ok THEN path
    ELSE Ok(Format(<< <<"l", "s", " ", "-", "l", "d", " ", "'">>,
                   <<"'">> >>,
                   <<path.val>>))

get_is_directory_command(host_os_type, untrusted_path) ==
    LET path == screen_path(untrusted_path) IN
    IF ~path.ok THEN path
    ELSE Ok(Format(<< <<"l", "s", " ", "-", "l", "d", " ", "'">>,
                   <<"'">> >>,
                   <<path.val>>))

get_touch_command(host_os_type, untrusted_path) ==
    LET path == screen_path(untrusted_path) IN
    IF ~path.ok THEN path
    ELSE Ok(Format(<< <<"t", "o", "u", "c", "h", " ", "'">>,
                   <<"'">> >>,
                   <<path.val>>))

get_create_directory_command(host_os_type, untrusted_path) ==
    LET path == screen_path(untrusted_path) IN
    IF ~path.ok THEN path
    ELSE Ok(Format(<< <<"m", "k", "d", "i", "r", " ", "-", "p", " ", "'">>,
                   <<"'">> >>,
                   <<path.val>>))

get_delete_file_command(host_os_type, untrusted_path) ==
    LET path == screen_path(untrusted_path) IN
    IF ~path.ok THEN path
    ELSE Ok(Format(<< <<"r", "m", " ", "-", "f", " ", "'">>,
                   <<"'">> >>,
                   <<path.val>>))

get_delete_directory_command(host_os_type, untrusted_path, recurse) ==
    LET path == screen_path(untrusted_path) IN
    IF ~path.ok THEN path
    ELSE IF recurse = "No"
    THEN Ok(Format(<< <<"r", "m", "d", "i", "r", " ", "'">>,
                   <<"'">> >>,
                   <<path.val>>))
    ELSE Ok(Format(<< <<"r", "m", " ", "-", "r", "f", " ", "'">>,
                   <<"'">> >>,
                   <<path.val>>))

\* a set_owner_command that takes the owner as it comes
set_owner_command_owner_unscreened(host_os_type, untrusted_path, untrusted_owner, recurse) ==
    LET path == screen_path(untrusted_path)
    IN  IF ~path.ok THEN path
        ELSE IF recurse = "No"
        THEN Ok(Format(<< <<"c", "h", "o", "w", "n", " ", "'">>,
                       <<"'", " ", "'">>,
                       <<"'">> >>,
                       <<Trim(untrusted_owner), path.val>>))
        ELSE Ok(Format(<< <<"c", "h", "o", "w", "n", " ", "-", "R", " ",
                           "'">>,
                       <<"'", " ", "'">>,
                       <<"'">> >>,
                       <<Trim(untrusted_owner), path.val>>))

set_owner_command(host_os_type, untrusted_path, untrusted_owner, recurse) ==
    LET path == screen_path(untrusted_path)
        owner == screen_general_input_strict(untrusted_owner)
    IN  IF ~path.ok THEN path
        ELSE IF ~owner.ok THEN owner
        ELSE IF recurse = "No"
        THEN Ok(Format(<< <<"c", "h", "o", "w", "n", " ", "'">>,
                       <<"'", " ", "'">>,
                       <<"'">> >>,
                       <<owner.val, path.val>>))
        ELSE Ok(Format(<< <<"c", "h", "o", "w", "n", " ", "-", "R", " ",
                           "'">>,
                       <<"'", " ", "'">>,
                       <<"'">> >>,
                       <<owner.val, path.val>>))

set_group_command(host_os_type, untrusted_path, untrusted_group, recurse) ==
    LET path == screen_path(untrusted_path)
        group == screen_general_input_strict(untrusted_group)
    IN  IF ~path.ok THEN path
        ELSE IF ~group.ok THEN group
        ELSE IF recurse = "No"
        THEN Ok(Format(<< <<"c", "h", "g", "r", "p", " ", "'">>,
                       <<"'", " ", "'">>,
                       <<"'">> >>,
                       <<group.val, path.val>>))
        ELSE Ok(Format(<< <<"c", "h", "g", "r", "p", " ", "-", "R", " ",
                           "'">>,
                       <<"'", " ", "'">>,
                       <<"'">> >>,
                       <<group.val, path.val>>))

set_mode_command(host_os_type, untrusted_path, untrusted_mode, recurse) ==
    LET path == screen_path(untrusted_path)
        mode == screen_mode(untrusted_mode)
    IN  IF ~path.ok THEN path
        ELSE IF ~mode.ok THEN mode
        ELSE IF recurse = "No"
        THEN Ok(Format(<< <<"c", "h", "m", "o", "d", " ", "'">>,
                       <<"'", " ", "'">>,
                       <<"'">> >>,
                       <<mode.val, path.val>>))
        ELSE Ok(Format(<< <<"c", "h", "m", "o", "d", " ", "-", "R", " ",
                           "'">>,
                       <<"'", " ", "'">>,
                       <<"'">> >>,
                       <<mode.val, path.val>>))

get_arch_command(host_os_type) ==
    Ok(<<"u", "n", "a", "m", "e", " ", "-", "m">>)

----------------------------------------------------------------------------
(* The command library alone: one call of one of its functions, the         *)
(* function and its arguments drawn from every string of up to MaxInputLen   *)
(* characters over the screened characters, a letter, a space and a quote,   *)
(* and from a few longer specimens.                                          *)

MaxInputLen == 2

LibAlphabet ==
    {";", "{", "}", "(", ")", "<", ">", "&", "*", "|", "=", "?", "[", "]",
     "$", "%", Backtick, " ", "a", "'"}

LibStrings == UNION { [1..n -> LibAlphabet] : n \in 0..MaxInputLen }

StrPwned ==
    <<"r", "m", " ", "-", "r", "f", " ", "/", ";", " ", "e", "c", "h", "o",
      " ", "p", "w", "n", "e", "d">>
StrAEqualsB == <<"a", "=", "b">>
StrTmpX ==
    <<"/", "t", "m", "p", "/", "x", "'", " ", "'", "/", "e", "t", "c", "/",
      "p", "a", "s", "s", "w", "d">>

LibSpecimens ==
    { StrPwned, StrAEqualsB, StrTmpX, <<" ", "a", " ", "a", " ">>,
      <<" ", "(", "a", "|", "a", ")", "%", " ">> }

\* paths, owners and groups for the builders of two arguments
LibNames ==
    { <<"a">>, <<" ", "a", " ">>, <<"a", ";">>, <<"a", "'">>, <<"%", "a">>, <<>> }

LibModes ==
    { <<"0", "7", "5", "5">>, <<"7">>, <<"r", "w", "x", "r", "-", "-">>,
      <<"8">>, <<"7", " ">>, <<"7", "'">>, <<";">>, <<>> }

Recurse == {"No", "Yes"}

ScreenFns ==
    {"screen_path", "screen_general_input_strict", "screen_general_input_loose"}

PathBuilders ==
    {"get_mode_command", "get_sha512_command", "get_ownership_command",
     "get_is_directory_command", "get_touch_command",
     "get_create_directory_command", "get_delete_file_command"}

NameBuilders == {"set_owner_command", "set_group_command"}

Builders ==
    PathBuilders \cup NameBuilders
        \cup {"get_delete_directory_command", "set_mode_command"}

LibCalls ==
    { [fn |-> f, input |-> s] : f \in ScreenFns, s \in LibStrings \cup LibSpecimens }
    \cup { [fn |-> "screen_mode", input |-> s] : s \in LibStrings \cup LibModes }
    \cup { [fn |-> f, os_type |-> o, untrusted_path |-> s] :
              f \in PathBuilders, o \in HostOSType, s \in LibStrings \cup LibSpecimens }
    \cup { [fn |-> "get_delete_directory_command", os_type |-> o,
            untrusted_path |-> s, recurse |-> r] :
              o \in HostOSType, s \in LibStrings \cup LibSpecimens, r \in Recurse }
    \cup { [fn |-> f, os_type |-> o, untrusted_path |-> s,
            untrusted_name |-> n, recurse |-> r] :
              f \in NameBuilders, o \in HostOSType, s \in LibNames,
              n \in LibNames, r \in Recurse }
    \cup { [fn |-> "set_mode_command", os_type |-> o, untrusted_path |-> s,
            untrusted_mode |-> m, recurse |-> r] :
              o \in HostOSType, s \in LibNames, m \in LibModes, r \in Recurse }
    \cup { [fn |-> "get_arch_command", os_type |-> o] : o \in HostOSType }

InitLib ==
    /\ HostNew
    /\ ChainInventory
    /\ lib_args \in LibCalls
    /\ lib_pc = "ready"
    /\ action = [module |-> "none"]
    /\ remote = [file |-> <<>>]
    /\ remote_log = <<>>
    /\ dispatched = <<>>

\* the function fn is called with the arguments drawn and returns ret
LibReturn(fn, ret) ==
    /\ lib_pc = "ready"
    /\ lib_args.fn = fn
    /\ lib_pc' = "done"
    /\ call' = [op |-> fn, ret |-> ret]
    /\ UNCHANGED <<lib_args, old, action, remote, remote_log, dispatched>>
    /\ FrameNotify
    /\ FrameCache
    /\ FrameOs
    /\ FrameVars
    /\ FrameGroups
    /\ FrameWalk

NextLib ==
    \/ LibReturn("screen_path", screen_path(lib_args.input))
    \/ LibReturn("screen_general_input_strict",
                 screen_general_input_strict(lib_args.input))
    \/ LibReturn("screen_general_input_loose",
                 screen_general_input_loose(lib_args.input))
    \/ LibReturn("screen_mode", screen_mode(lib_args.input))
    \/ LibReturn("get_mode_command",
                 get_mode_command(lib_args.os_type, lib_args.untrusted_path))
    \/ LibReturn("get_sha512_command",
                 get_sha512_command(lib_args.os_type, lib_args.untrusted_path))
    \/ LibReturn("get_ownership_command",
                 get_ownership_command(lib_args.os_type, lib_args.untrusted_path))
    \/ LibReturn("get_is_directory_command",
                 get_is_directory_command(lib_args.os_type, lib_args.untrusted_path))
    \/ LibReturn("get_touch_command",
                 get_touch_command(lib_args.os_type, lib_args.untrusted_path))
    \/ LibReturn("get_create_directory_command",
                 get_create_directory_command(lib_args.os_type, lib_args.untrusted_path))
    \/ LibReturn("get_delete_file_command",
                 get_delete_file_command(lib_args.os_type, lib_args.untrusted_path))
    \/ LibReturn("get_delete_directory_command",
                 get_delete_directory_command(lib_args.os_type, lib_args.untrusted_path,
                                              lib_args.recurse))
    \/ LibReturn("set_owner_command",
                 set_owner_command(lib_args.os_type, lib_args.untrusted_path,
                                   lib_args.untrusted_name, lib_args.recurse))
    \/ LibReturn("set_group_command",
                 set_group_command(lib_args.os_type, lib_args.untrusted_path,
                                   lib_args.untrusted_name, lib_args.recurse))
    \/ LibReturn("set_mode_command",
                 set_mode_command(lib_args.os_type, lib_args.untrusted_path,
                                  lib_args.untrusted_mode, lib_args.recurse))
    \/ LibReturn("get_arch_command", get_arch_command(lib_args.os_type))

SpecLib == InitLib /\ [][NextLib]_vars

----------------------------------------------------------------------------
(* Properties of the command library *)

\* character c occurs in string s
Occurs(c, s) == \E i \in 1..Len(s) : s[i] = c

\* s without the white space at its two ends
Stripped(s) ==
    LET solid == { i \in 1..Len(s) : s[i] \notin {" ", "\t", "\n", "\r"} }
        first == CHOOSE i \in solid : \A j \in solid : i <= j
        last  == CHOOSE i \in solid : \A j \in solid : i >= j
    IN  IF solid = {} THEN <<>> ELSE SubSeq(s, first, last)

\* what a POSIX shell makes of a command line that has no quoting other than
\* single quotes: its words, split at the blanks outside quotes and with the
\* quotes taken off, and whether every quote that opens is closed
RECURSIVE ShellRead(_, _, _, _, _)
ShellRead(rest, words, word, in_word, in_quote) ==
    IF rest = <<>>
    THEN [closed |-> ~in_quote,
          words |-> IF in_word THEN Append(words, word) ELSE words]
    ELSE LET c == Head(rest) IN
         IF c = "'"
         THEN ShellRead(Tail(rest), words, word, TRUE, ~in_quote)
         ELSE IF c = " " /\ ~in_quote
         THEN ShellRead(Tail(rest),
                        IF in_word THEN Append(words, word) ELSE words,
                        <<>>, FALSE, FALSE)
         ELSE ShellRead(Tail(rest), words, Append(word, c), TRUE, in_quote)

ShellWords(command) == ShellRead(command, <<>>, <<>>, FALSE, FALSE)

\* the untrusted arguments of the builder call made, in the order in which
\* the command text has them
UntrustedArgs ==
    IF lib_args.fn \in NameBuilders
    THEN <<lib_args.untrusted_name, lib_args.untrusted_path>>
    ELSE IF lib_args.fn = "set_mode_command"
    THEN <<lib_args.untrusted_mode, lib_args.untrusted_path>>
    ELSE <<lib_args.untrusted_path>>

\* C12: a builder of the catalog either returns a screening error or a command
\* in which every untrusted argument stays inside its single quotes: the shell
\* reads the command as closed, and its last words are the arguments, each one
\* word, white space at the ends apart.
BuildersQuoteEveryArgument ==
    (call.op \in Builders /\ call.ret.ok) =>
        LET read == ShellWords(call.ret.val)
            n    == Len(read.words)
            k    == Len(UntrustedArgs)
        IN  /\ read.closed
            /\ n > k
            /\ \A i \in 1..k : read.words[n - k + i] = Stripped(UntrustedArgs[i])

StrictDenied ==
    {";", "{", "}", "(", ")", "<", ">", "&", "*", "|", "=", "?", "[", "]",
     "$", "%", Backtick}

LooseDenied ==
    {";", "<", ">", "&", "*", "?", "{", "}", "[", "]", "$", Backtick}

\* C13: screen_general_input_strict succeeds, with the trimmed input, exactly
\* when the trimmed input has none of the 17 characters; a failure names one of
\* them that occurs in the input.
StrictScreeningExact ==
    call.op = "screen_general_input_strict" =>
        LET trimmed == Stripped(lib_args.input) IN
        /\ call.ret.ok <=> (\A c \in StrictDenied : ~Occurs(c, trimmed))
        /\ call.ret.ok => call.ret.val = trimmed
        /\ ~call.ret.ok
              => /\ call.ret.err.invalid \in StrictDenied
                 /\ Occurs(call.ret.err.invalid, lib_args.input)

\* the specimen with a second command after a semicolon was refused for the
\* semicolon
StrictScreeningExactWitness ==
    /\ call.op = "screen_general_input_strict"
    /\ lib_args.input = StrPwned
    /\ ~call.ret.ok
    /\ call.ret.err.invalid = ";"

\* C14: screen_general_input_loose succeeds, with the trimmed input, exactly
\* when the trimmed input has none of its 12 characters, so that parentheses,
\* pipe, equals and percent pass; a failure names one of the 12 that occurs in
\* the input.
LooseScreeningExact ==
    call.op = "screen_general_input_loose" =>
        LET trimmed == Stripped(lib_args.input) IN
        /\ call.ret.ok <=> (\A c \in LooseDenied : ~Occurs(c, trimmed))
        /\ call.ret.ok => call.ret.val = trimmed
        /\ (\A i \in 1..Len(trimmed) : trimmed[i] \in {"(", ")", "|", "=", "%", "a", " "})
              => call.ret.ok
        /\ ~call.ret.ok
              => /\ call.ret.err.invalid \in LooseDenied
                 /\ Occurs(call.ret.err.invalid, lib_args.input)

\* an input with parentheses, a pipe and a percent sign between blanks was
\* accepted and came back without the blanks
LooseScreeningExactWitness ==
    /\ call.op = "screen_general_input_loose"
    /\ lib_args.input = <<" ", "(", "a", "|", "a", ")", "%", " ">>
    /\ call.ret.ok
    /\ call.ret.val = <<"(", "a", "|", "a", ")", "%">>

\* the screening that a builder's arguments go through, in the order in which
\* the builder screens them: the path first
ArgScreenings ==
    IF lib_args.fn \in NameBuilders
    THEN <<screen_general_input_strict(lib_args.untrusted_path),
           screen_general_input_strict(lib_args.untrusted_name)>>
    ELSE IF lib_args.fn = "set_mode_command"
    THEN <<screen_general_input_strict(lib_args.untrusted_path),
           screen_mode(lib_args.untrusted_mode)>>
    ELSE <<screen_general_input_strict(lib_args.untrusted_path)>>

\* C15: a builder returns command text exactly when every argument passes its
\* screening (strict for path, owner and group, octal for mode); otherwise it
\* returns the error of a screening that failed, as that screening made it,
\* and no command text.
BuildersFailClosed ==
    call.op \in Builders =>
        LET failed == { i \in 1..Len(ArgScreenings) : ~ArgScreenings[i].ok } IN
        /\ call.ret.ok <=> failed = {}
        /\ failed # {}
              => /\ \E i \in failed : call.ret = ArgScreenings[i]
                 /\ "val" \notin DOMAIN call.ret

\* set_mode_command, recursive, returned the octal check's error for a mode
\* that strict screening would let through, the path being fine
BuildersFailClosedWitness ==
    /\ call.op = "set_mode_command"
    /\ lib_args.recurse = "Yes"
    /\ lib_args.untrusted_path = <<" ", "a", " ">>
    /\ lib_args.untrusted_mode = <<"r", "w", "x", "r", "-", "-">>
    /\ call.ret = Err([text |-> "not an octal string",
                       input |-> <<"r", "w", "x", "r", "-", "-">>])

\* the command text: the words, a blank between them
RECURSIVE Joined(_)
Joined(words) ==
    IF Len(words) = 1 THEN words[1]
    ELSE words[1] \o <<" ">> \o Joined(Tail(words))

Quoted(s) == <<"'">> \o s \o <<"'">>

\* C16: for a path that passes screening the builders return the specified
\* text, <path> being the trimmed input: stat --format '%a' '<path>' on Linux
\* and stat -f '%A' '<path>' on macOS; sha512sum '<path>' on Linux and
\* shasum -b -a 512 '<path>' on macOS; mkdir -p '<path>'; rm -rf '<path>' when
\* recursive and rmdir '<path>' when not.
BuildersExactText ==
    ( /\ call.op \in {"get_mode_command", "get_sha512_command",
                      "get_create_directory_command",
                      "get_delete_directory_command"}
      /\ screen_path(lib_args.untrusted_path).ok ) =>
        LET path  == Quoted(Stripped(lib_args.untrusted_path))
            linux == lib_args.os_type = "Linux"
            text  ==
                CASE call.op = "get_mode_command" /\ linux ->
                       <<<<"s", "t", "a", "t">>, <<"-", "-", "f", "o", "r", "m", "a", "t">>, Quoted(<<"%", "a">>), path>>
                  [] call.op = "get_mode_command" /\ ~linux ->
                       <<<<"s", "t", "a", "t">>, <<"-", "f">>, Quoted(<<"%", "A">>), path>>
                  [] call.op = "get_sha512_command" /\ linux ->
                       <<<<"s", "h", "a", "5", "1", "2", "s", "u", "m">>, path>>
                  [] call.op = "get_sha512_command" /\ ~linux ->
                       <<<<"s", "h", "a", "s", "u", "m">>, <<"-", "b">>, <<"-", "a">>,
                         <<"5", "1", "2">>, path>>
                  [] call.op = "get_create_directory_command" ->
                       <<<<"m", "k", "d", "i", "r">>, <<"-", "p">>, path>>
                  [] call.op = "get_delete_directory_command"
                        /\ lib_args.recurse = "Yes" ->
                       <<<<"r", "m">>, <<"-", "r", "f">>, path>>
                  [] call.op = "get_delete_directory_command"
                        /\ lib_args.recurse = "No" ->
                       <<<<"r", "m", "d", "i", "r">>, path>>
        IN  call.ret = Ok(Joined(text))

\* the macOS mode query for a path given with blanks around it
BuildersExactTextWitness ==
    /\ call.op = "get_mode_command"
    /\ lib_args.os_type = "MacOS"
    /\ lib_args.untrusted_path = <<" ", "a", " ", "a", " ">>
    /\ call.ret.ok
    /\ Len(call.ret.val) = 18
    /\ SubSeq(call.ret.val, 13, 18) = <<" ", "'", "a", " ", "a", "'">>

----------------------------------------------------------------------------
(* Task responses and the connection.  handle/response.rs, handle/remote.rs *)
(* and handle/template.rs are outside the sources at hand: what they do is   *)
(* taken from the design's sections 4.3, 4.4 and 7.  A Vec is a sequence,    *)
(* and the message of a failure is the sequence of the pieces of its text.   *)

RequestTypes == {"Query", "Create", "Modify", "Execute", "Passive"}

\* TaskResponse (tasks/response.rs), without the pre- and post-logic
TaskResponse(status, changes, msg, command_result) ==
    [status |-> status, changes |-> changes, msg |-> msg,
     command_result |-> command_result]

\* CommandResult (connection/command.rs)
CommandResult(cmd, out, rc) == [cmd |-> cmd, out |-> out, rc |-> rc]

\* the helpers of handle.response
needs_creation  == TaskResponse("NeedsCreation", <<>>, None, None)
needs_execution == TaskResponse("NeedsExecution", <<>>, None, None)
needs_passive   == TaskResponse("NeedsPassive", <<>>, None, None)
needs_modification(changes) == TaskResponse("NeedsModification", changes, None, None)
is_matched      == TaskResponse("IsMatched", <<>>, None, None)
is_created      == TaskResponse("IsCreated", <<>>, None, None)
\* an is_modified that does not say what was modified
is_modified_unnamed(changes) == TaskResponse("IsModified", <<>>, None, None)

is_modified(changes) == TaskResponse("IsModified", changes, None, None)
is_passive      == TaskResponse("IsPassive", <<>>, None, None)
is_failed(msg)  == TaskResponse("Failed", <<>>, Some(msg), None)
not_supported   == is_failed(<<"not supported">>)
command_ok(command_result) ==
    TaskResponse("IsExecuted", <<>>, None, Some(command_result))
command_failed(command_result) ==
    TaskResponse("Failed", <<>>, Some(<<"command failed">>), command_result)

\* cmd_info: the return code and output of a response that has a command
\* result (the assertion holds wherever the model calls it)
cmd_info(info) == <<info.command_result[1].rc, info.command_result[1].out>>

\* what the remote end makes of a command: it is out of reach, or the command
\* ends with a return code and an output
RunOutcomes ==
    { [connected |-> TRUE, rc |-> 0, out |-> "fine"],
      [connected |-> TRUE, rc |-> 1, out |-> "oops"],
      [connected |-> FALSE] }

\* handle.remote.run_unsafe: the command goes to the connection as it is; a
\* checked run takes a non-zero return code for a failure
run_unsafe(cmd, check_rc, outcome) ==
    IF ~outcome.connected
    THEN Err(is_failed(<<"connection failed">>))
    ELSE LET result == CommandResult(cmd, outcome.out, outcome.rc) IN
         IF check_rc = "Checked" /\ outcome.rc # 0
         THEN Err(command_failed(Some(result)))
         ELSE Ok(command_ok(result))

\* handle.remote.run: loose screening of the whole command first
run(cmd, check_rc, outcome) ==
    LET screened == screen_general_input_loose(cmd) IN
    IF ~screened.ok
    THEN Err(is_failed(<<screened.err.text>> \o screened.err.input
                          \o <<screened.err.invalid>>))
    ELSE run_unsafe(cmd, check_rc, outcome)

\* the entry of the log for a command handed to the connection
Ran(how, cmd) == [op |-> how, cmd |-> cmd]

----------------------------------------------------------------------------
(* Conditions (src/playbooks/templar.rs).  A text is a sequence of pieces;   *)
(* an expression is (eq param is), a record [param, is], or one that does    *)
(* not parse, [unparsable |-> TRUE].  The wrapper that test_condition        *)
(* builds around an expression is [if_true_else_false |-> expr]; the         *)
(* template of a file is a text without expressions, [literal |-> text], or  *)
(* the value of a variable, [variable |-> name].                             *)

\* a value as a template prints it
Display(v) == IF IsMapping(v) THEN "[object]" ELSE ToString(v.s)

\* Handlebars::render_template in strict mode: a variable or a parameter that
\* the data do not have cannot be read
HandlebarsRenderTemplate(template, data) ==
    IF "literal" \in DOMAIN template
    THEN Ok(<<template.literal>>)
    ELSE IF "variable" \in DOMAIN template
    THEN (IF template.variable \in DOMAIN data.m
          THEN Ok(<<Display(data.m[template.variable])>>)
          ELSE Err([desc |-> <<"Variable not found in strict mode",
                               template.variable>>]))
    ELSE LET expr == template.if_true_else_false IN
         IF "unparsable" \in DOMAIN expr
         THEN Err([desc |-> <<"invalid handlebars syntax">>])
         ELSE IF expr.param \notin DOMAIN data.m
         THEN Err([desc |-> <<"Couldn't read parameter", expr.param>>])
         ELSE IF data.m[expr.param] = Scalar(expr.is)
         THEN Ok(<<"true">>)
         ELSE Ok(<<"false">>)

\* a render that renders in either mode
render_in_either_mode(template, data, template_mode) ==
    LET result == HandlebarsRenderTemplate(template, data)
    IN  IF result.ok
        THEN Ok(result.val)
        ELSE Err(<<"Template error: ">> \o result.err.desc)

\* Templar::render
render(template, data, template_mode) ==
    LET result == IF template_mode = "Strict"
                  THEN HandlebarsRenderTemplate(template, data)
                  ELSE Ok(<<"empty">>)
    IN  IF result.ok
        THEN Ok(result.val)
        ELSE Err(<<"Template error: ">> \o result.err.desc)

\* a test_condition that takes a condition it cannot render for false
test_condition_false_on_error(expr, data, template_mode) ==
    IF template_mode = "Off" THEN Ok(TRUE)
    ELSE LET template == [if_true_else_false |-> expr]
             result == render(template, data, "Strict")
         IN  IF result.ok /\ result.val = <<"true">> THEN Ok(TRUE) ELSE Ok(FALSE)

\* Templar::test_condition
test_condition(expr, data, template_mode) ==
    IF template_mode = "Off" THEN Ok(TRUE)
    ELSE LET template == [if_true_else_false |-> expr]
             result == render(template, data, "Strict")
         IN  IF result.ok
             THEN (IF result.val = <<"true">> THEN Ok(TRUE) ELSE Ok(FALSE))
             ELSE IF Contains(result.err, <<"Couldn't read parameter">>)
             THEN Err(<<"failed to parse conditional: ", ToString(expr),
                        ": one or more parameters may be undefined">>)
             ELSE Err(<<"failed to parse conditional: ", ToString(expr), ": ">>
                      \o result.err)

\* handle.template.test_condition_with_extra_data: the condition is tested
\* against the host's blended variables with the extra data merged over them;
\* a failure becomes a failed response
test_condition_with_extra_data(template_mode, condition, order, extra) ==
    LET data == Blend(Blended(order), Mapping(extra))
        result == test_condition(condition, data, template_mode)
    IN  IF result.ok THEN result ELSE Err(is_failed(result.err))

----------------------------------------------------------------------------
(* The shell module (src/modules/commands/shell.rs) *)

build_results_map(rc, out) ==
    ("rc" :> Scalar(rc)) @@ ("out" :> Scalar(out))

\* a save_results that puts rc and out among the host's variables themselves
SaveResultsFlat(key, map_data) ==
    MappingInsertAll(variables, Mapping(map_data))

\* a save_results that writes nothing
SaveResultsDropped(key, map_data) == variables

\* save_results: the map goes into the host's variables under key
SaveResults(key, map_data) ==
    MappingInsertAll(variables, Mapping(key :> Mapping(map_data)))

\* a gating in which a true changed decision makes the outcome IsExecuted
\* whatever the failed decision
ShellGateChangedFirst(should_fail, should_mark_changed, task_result) ==
    IF should_mark_changed THEN Ok(task_result)
    ELSE IF should_fail
    THEN Err(command_failed(task_result.command_result))
    ELSE Ok(is_passive)

\* lines 120-126
ShellGate(should_fail, should_mark_changed, task_result) ==
    IF should_fail THEN Err(command_failed(task_result.command_result))
    ELSE IF should_mark_changed THEN Ok(task_result)
    ELSE Ok(is_passive)

\* a failed decision that is never taken from the return code
ShellShouldFailNever(a, rc, map_data, order) ==
    IF a.failed_when = None
    THEN Ok(FALSE)
    ELSE test_condition_with_extra_data("Strict", a.failed_when[1], order, map_data)

\* a failed decision that is taken from the return code, condition or not
ShellShouldFailOnReturnCode(a, rc, map_data, order) == Ok(rc # 0)

\* lines 100-106
ShellShouldFail(a, rc, map_data, order) ==
    IF a.failed_when = None
    THEN Ok(rc # 0)
    ELSE test_condition_with_extra_data("Strict", a.failed_when[1], order, map_data)

\* lines 108-114
ShellShouldMarkChanged(a, map_data, order) ==
    IF a.changed_when = None
    THEN Ok(TRUE)
    ELSE test_condition_with_extra_data("Strict", a.changed_when[1], order, map_data)

\* lines 91-128: what Execute returns, what it leaves in the host's variables
\* and what it hands to the connection
ShellExecute(a, outcome, order) ==
    LET task_result == IF a.unsafe_
                       THEN run_unsafe(a.cmd, "Unchecked", outcome)
                       ELSE run(a.cmd, "Unchecked", outcome)
        log == IF a.unsafe_ THEN <<Ran("run_unsafe", a.cmd)>>
               ELSE IF screen_general_input_loose(a.cmd).ok
               THEN <<Ran("run", a.cmd)>>
               ELSE <<>>
        stop(failure) == [ret |-> failure, variables |-> variables, log |-> log]
    IN  IF ~task_result.ok THEN stop(task_result)
        ELSE
        LET info == cmd_info(task_result.val)
            rc == info[1]
            out == info[2]
            map_data == build_results_map(rc, out)
            should_fail == ShellShouldFail(a, rc, map_data, order)
        IN  IF ~should_fail.ok THEN stop(should_fail)
            ELSE
            LET should_mark_changed == ShellShouldMarkChanged(a, map_data, order)
            IN  IF ~should_mark_changed.ok THEN stop(should_mark_changed)
                ELSE [ret |-> ShellGate(should_fail.val, should_mark_changed.val,
                                        task_result.val),
                      variables |-> IF a.save # None
                                    THEN SaveResults(a.save[1], map_data)
                                    ELSE variables,
                      log |-> log]

\* the response of a dispatch, as Result<Arc<TaskResponse>, Arc<TaskResponse>>
Response(ret) == IF ret.ok THEN ret.val ELSE ret.err

\* a dispatch records the request and the response, and with them what the
\* remote end made of the command
ShellDispatched(request_type, outcome, ret) ==
    Record([op |-> "dispatch", request_type |-> request_type,
            outcome |-> outcome, ret |-> ret])

\* ShellAction::dispatch
ShellDispatch(request_type, outcome) ==
    /\ action.module = "shell"
    /\ \E order \in IterationOrders(HostAncestors(BlendDepthLimit)) :
          LET done == ShellExecute(action, outcome, order) IN
          CASE request_type = "Query" ->
                 /\ ShellDispatched(request_type, outcome, Ok(needs_execution))
                 /\ remote_log' = <<>>
                 /\ UNCHANGED variables
            [] request_type = "Execute" ->
                 /\ ShellDispatched(request_type, outcome, done.ret)
                 /\ remote_log' = done.log
                 /\ variables' = done.variables
            [] OTHER ->
                 /\ ShellDispatched(request_type, outcome, Err(not_supported))
                 /\ remote_log' = <<>>
                 /\ UNCHANGED variables
    /\ UNCHANGED <<facts, action, remote, lib_args, lib_pc>>
    /\ FrameNotify
    /\ FrameCache
    /\ FrameOs
    /\ FrameGroups
    /\ FrameWalk

----------------------------------------------------------------------------
(* The echo module (src/modules/control/echo.rs) *)

\* a dispatch records the request and the response
Dispatched(request_type, ret) ==
    Record([op |-> "dispatch", request_type |-> request_type, ret |-> ret])

\* EchoAction::dispatch: handle.debug prints on the control side
EchoDispatch(request_type) ==
    /\ action.module = "echo"
    /\ CASE request_type = "Query" ->
              Dispatched(request_type, Ok(needs_passive))
         [] request_type = "Passive" ->
              Dispatched(request_type, Ok(is_passive))
         [] OTHER ->
              Dispatched(request_type, Err(not_supported))
    /\ remote_log' = <<>>
    /\ UNCHANGED <<action, remote, lib_args, lib_pc>>
    /\ FrameNotify
    /\ FrameCache
    /\ FrameOs
    /\ FrameVars
    /\ FrameGroups
    /\ FrameWalk

----------------------------------------------------------------------------
(* The managed host as the file modules see it (handle/remote.rs and         *)
(* handle/local.rs are outside the sources at hand; design section 4.4).     *)
(* remote.file is the file at the action's dest: None, or Some of its        *)
(* content, owner, group and mode.  A dispatch works through its remote and  *)
(* local steps in order; the step numbered fail_at fails, none when that is  *)
(* 0, and a step that fails leaves the remote end as it found it.  For the   *)
(* git module the file is the directory at the action's path, remote.repo    *)
(* is the repository in it, None or Some of its version and branch, and      *)
(* remote.upstream gives, per branch of the action's repo, the version at    *)
(* its tip.                                                                  *)

Fields == {"Owner", "Group", "Mode", "Content", "Branch", "Version"}

RemoteFile(content, owner, group, mode) ==
    [content |-> content, owner |-> owner, group |-> group, mode |-> mode]

\* what a file written by the connection's user has before attributes are set
DefaultOwner == "jet"
DefaultGroup == "jet"
DefaultMode  == "644"

\* tasks::checksum::sha512 and the remote sha512sum: the digest of a content
Sha512(content) == <<"sha512", content>>

Session(r) == [remote |-> r, log |-> <<>>, failed |-> FALSE]

\* a step that is taken even after a step that failed
StepIfCarryingOn(session, entry, possible, after, fail_at) ==
    IF ~possible \/ Len(session.log) + 1 = fail_at
    THEN [remote |-> session.remote, log |-> Append(session.log, entry),
          failed |-> TRUE]
    ELSE [remote |-> after, log |-> Append(session.log, entry),
          failed |-> session.failed]

\* the next step: it is logged, and it takes effect unless it cannot be done,
\* is the one that fails, or comes after a step that failed
StepIf(session, entry, possible, after, fail_at) ==
    IF session.failed THEN session
    ELSE IF ~possible \/ Len(session.log) + 1 = fail_at
    THEN [remote |-> session.remote, log |-> Append(session.log, entry),
          failed |-> TRUE]
    ELSE [remote |-> after, log |-> Append(session.log, entry), failed |-> FALSE]

Step(session, entry, after, fail_at) ==
    StepIf(session, entry, TRUE, after, fail_at)

\* what a dispatch comes to: its response, the remote end and the log
Finished(ret, session) ==
    [ret |-> ret, remote |-> session.remote, log |-> session.log]

StepFailed(session) ==
    Finished(Err(is_failed(<<"step failed", session.log[Len(session.log)]>>)),
             session)

\* query_common_file_attributes, for a file that exists: the declared
\* attributes that the file does not have
AttributeChanges(attributes, file) ==
    IF attributes = None THEN <<>>
    ELSE LET declared == attributes[1] IN
         (IF declared.owner # None /\ declared.owner[1] # file.owner
          THEN <<"Owner">> ELSE <<>>)
         \o (IF declared.group # None /\ declared.group[1] # file.group
             THEN <<"Group">> ELSE <<>>)
         \o (IF declared.mode # None /\ declared.mode[1] # file.mode
             THEN <<"Mode">> ELSE <<>>)

\* Vec::contains
VecContains(vec, x) == \E i \in 1..Len(vec) : vec[i] = x

\* process_common_file_attributes: the declared attributes named in changes
\* are set on the file
WithAttributes(file, attributes, changes) ==
    IF attributes = None THEN file
    ELSE LET declared == attributes[1] IN
         [file EXCEPT
            !.owner = IF declared.owner # None /\ VecContains(changes, "Owner")
                      THEN declared.owner[1] ELSE @,
            !.group = IF declared.group # None /\ VecContains(changes, "Group")
                      THEN declared.group[1] ELSE @,
            !.mode  = IF declared.mode # None /\ VecContains(changes, "Mode")
                      THEN declared.mode[1] ELSE @]

\* process_all_common_file_attributes: every declared attribute is set
WithAllAttributes(file, attributes) ==
    WithAttributes(file, attributes, <<"Owner", "Group", "Mode">>)

\* copy_file and write_data: the content is at the path, in a new file if
\* there was none
WithContent(r, content) ==
    [r EXCEPT !.file =
        IF @ = None
        THEN Some(RemoteFile(content, DefaultOwner, DefaultGroup, DefaultMode))
        ELSE Some([@[1] EXCEPT !.content = content])]

\* the steps of query_common_file_attributes: the mode, which tells whether
\* the path exists, and the ownership when attributes are declared
QueryAttributesSteps(session, attributes, fail_at) ==
    LET asked == Step(session, "get_mode", session.remote, fail_at) IN
    IF asked.failed \/ asked.remote.file = None \/ attributes = None
    THEN asked
    ELSE Step(asked, "get_ownership", asked.remote, fail_at)

\* a Query leg that takes equal content for a match whatever the attributes
QueryContentAlone(session, attributes, local_512, fail_at) ==
    LET hashed == Step(session, "get_sha512", session.remote, fail_at) IN
    IF hashed.failed THEN StepFailed(hashed)
    ELSE LET file == hashed.remote.file[1]
             remote_512 == Sha512(file.content)
             changes == AttributeChanges(attributes, file)
                           \o (IF remote_512 # local_512
                               THEN <<"Content">> ELSE <<>>)
         IN  IF remote_512 # local_512
             THEN Finished(Ok(needs_modification(changes)), hashed)
             ELSE Finished(Ok(is_matched), hashed)

\* the rest of the Query leg once the content at hand is known: lines 84-91
QueryContent(session, attributes, local_512, fail_at) ==
    LET hashed == Step(session, "get_sha512", session.remote, fail_at) IN
    IF hashed.failed THEN StepFailed(hashed)
    ELSE LET file == hashed.remote.file[1]
             remote_512 == Sha512(file.content)
             changes == AttributeChanges(attributes, file)
                           \o (IF remote_512 # local_512
                               THEN <<"Content">> ELSE <<>>)
         IN  IF changes # <<>>
             THEN Finished(Ok(needs_modification(changes)), hashed)
             ELSE Finished(Ok(is_matched), hashed)

\* process_all_common_file_attributes as one step
ProcessAllAttributes(session, attributes, fail_at) ==
    StepIf(session, "process_all_common_file_attributes",
           session.remote.file # None \/ attributes = None,
           [session.remote EXCEPT
               !.file = IF @ = None THEN @
                        ELSE Some(WithAllAttributes(@[1], attributes))],
           fail_at)

\* the content lands, then the callback sets every declared attribute
WriteThenAttributes(session, how, content, attributes, fail_at) ==
    LET written == Step(session, how, WithContent(session.remote, content), fail_at)
    IN  ProcessAllAttributes(written, attributes, fail_at)

\* process_common_file_attributes as one step
ProcessAttributes(session, attributes, changes, fail_at) ==
    StepIf(session, "process_common_file_attributes",
           session.remote.file # None \/ attributes = None,
           [session.remote EXCEPT
               !.file = IF @ = None THEN @
                        ELSE Some(WithAttributes(@[1], attributes, changes))],
           fail_at)

----------------------------------------------------------------------------
(* The copy module (src/modules/files/copy.rs) *)

\* a copy that leaves the attributes of the file as they fall
do_copy_without_callback(a, session, fail_at) ==
    Step(session, "copy_file", WithContent(session.remote, a.src_content), fail_at)

\* CopyAction::do_copy
do_copy(a, session, fail_at) ==
    WriteThenAttributes(session, "copy_file", a.src_content, a.attributes, fail_at)

\* request.task_id: the unit of work in hand
RequestTaskId == 1

\* what a dispatch comes to and the checksum cache as it leaves it
Cached(done, cache, task_id) ==
    [ret |-> done.ret, remote |-> done.remote, log |-> done.log,
     cache |-> cache, cache_task_id |-> task_id]

\* a dispatch that does not touch the checksum cache
Uncached(done) == Cached(done, checksum_cache, checksum_cache_task_id)

\* lines 73-92.  handle.local.get_sha512 with the cache in use looks the
\* source up in the checksum cache for the request's task, and computes and
\* stores the checksum when it is not there
CopyQuery(a, r, fail_at) ==
    LET asked == QueryAttributesSteps(Session(r), a.attributes, fail_at) IN
    IF asked.failed THEN Uncached(StepFailed(asked))
    ELSE IF asked.remote.file = None
    THEN Uncached(Finished(Ok(needs_creation), asked))
    ELSE LET task_id == CacheTaskIdAfterGet(RequestTaskId)
             looked == CacheAfterGet(RequestTaskId)
             hit == CacheLookup(looked, a.src)
         IN  IF hit # None
             THEN Cached(QueryContent(asked, a.attributes, hit[1], fail_at),
                         looked, task_id)
             ELSE LET local == Step(asked, "local_sha512", asked.remote, fail_at)
                      local_512 == Sha512(a.src_content)
                  IN  IF local.failed
                      THEN Cached(StepFailed(local), looked, task_id)
                      ELSE Cached(QueryContent(local, a.attributes, local_512,
                                               fail_at),
                                  CacheInsert(looked, a.src, local_512), task_id)

CopyCreate(a, r, fail_at) ==
    LET copied == do_copy(a, Session(r), fail_at) IN
    IF copied.failed THEN Uncached(StepFailed(copied))
    ELSE Uncached(Finished(Ok(is_created), copied))

\* a Modify leg that copies the file whatever the requested changes
CopyModifyAlwaysCopies(a, changes, r, fail_at) ==
    LET done == do_copy(a, Session(r), fail_at)
    IN  IF done.failed THEN Uncached(StepFailed(done))
        ELSE Uncached(Finished(Ok(is_modified(changes)), done))

\* lines 99-107
CopyModify(a, changes, r, fail_at) ==
    LET done == IF VecContains(changes, "Content")
                THEN do_copy(a, Session(r), fail_at)
                ELSE ProcessAttributes(Session(r), a.attributes, changes, fail_at)
    IN  IF done.failed THEN Uncached(StepFailed(done))
        ELSE Uncached(Finished(Ok(is_modified(changes)), done))

\* the dispatch is recorded and the remote end is as the steps left it
FileDispatched(request_type, changes, fail_at, done) ==
    /\ Record([op |-> "dispatch", request_type |-> request_type,
               changes |-> changes, fail_at |-> fail_at, ret |-> done.ret])
    /\ remote' = done.remote
    /\ remote_log' = done.log

\* a match in which Execute does what Create does
CopyMatchExecuteCopies(request_type, changes, fail_at) ==
    CASE request_type = "Query"  -> CopyQuery(action, remote, fail_at)
      [] request_type \in {"Create", "Execute"} -> CopyCreate(action, remote, fail_at)
      [] request_type = "Modify" -> CopyModify(action, changes, remote, fail_at)
      [] OTHER -> Uncached(Finished(Err(not_supported), Session(remote)))

\* the match on request.request_type, lines 71-110
CopyMatch(request_type, changes, fail_at) ==
    CASE request_type = "Query"  -> CopyQuery(action, remote, fail_at)
      [] request_type = "Create" -> CopyCreate(action, remote, fail_at)
      [] request_type = "Modify" -> CopyModify(action, changes, remote, fail_at)
      [] OTHER -> Uncached(Finished(Err(not_supported), Session(remote)))

\* CopyAction::dispatch
CopyDispatch(request_type, changes, fail_at) ==
    /\ action.module = "copy"
    /\ LET done == CopyMatch(request_type, changes, fail_at) IN
          /\ FileDispatched(request_type, changes, fail_at, done)
          /\ checksum_cache' = done.cache
          /\ checksum_cache_task_id' = done.cache_task_id
          /\ stored_under' =
                [path \in DOMAIN done.cache |->
                    IF path \in DOMAIN checksum_cache
                       /\ checksum_cache[path] = done.cache[path]
                       /\ done.cache_task_id = checksum_cache_task_id
                    THEN stored_under[path]
                    ELSE done.cache_task_id]
          \* the only lookup of the dispatch is made under RequestTaskId
          /\ highest_task_id' = IF done.cache_task_id > highest_task_id
                                THEN done.cache_task_id ELSE highest_task_id
    /\ UNCHANGED <<action, lib_args, lib_pc>>
    /\ FrameNotify
    /\ FrameOs
    /\ FrameVars
    /\ FrameGroups
    /\ FrameWalk

----------------------------------------------------------------------------
(* The template module (src/modules/files/template.rs) *)

\* handle.template.string_for_template_module_use_only: the template is
\* rendered against the host's blended variables
RenderForTemplateModule(template, order) ==
    LET result == render(template, Blended(order), "Strict") IN
    IF result.ok THEN result ELSE Err(is_failed(result.err))

\* TemplateAction::do_template: read the source, render it, and write the
\* result when asked to
do_template(a, session, write, order, fail_at) ==
    LET read == Step(session, "read_file", session.remote, fail_at) IN
    IF read.failed THEN [session |-> read, data |-> Err(is_failed(<<"read_file">>))]
    ELSE LET data == RenderForTemplateModule(a.src_template, order) IN
         IF ~data.ok \/ ~write THEN [session |-> read, data |-> data]
         ELSE LET written == WriteThenAttributes(read, "write_data", data.val,
                                                 a.attributes, fail_at)
              IN  [session |-> written,
                   data |-> IF written.failed
                            THEN Err(is_failed(<<"write_data">>))
                            ELSE data]

TemplateQuery(a, r, order, fail_at) ==
    LET asked == QueryAttributesSteps(Session(r), a.attributes, fail_at) IN
    IF asked.failed THEN StepFailed(asked)
    ELSE IF asked.remote.file = None THEN Finished(Ok(needs_creation), asked)
    ELSE LET templated == do_template(a, asked, FALSE, order, fail_at) IN
         IF ~templated.data.ok THEN Finished(templated.data, templated.session)
         ELSE QueryContent(templated.session, a.attributes,
                           Sha512(templated.data.val), fail_at)

TemplateCreate(a, r, order, fail_at) ==
    LET templated == do_template(a, Session(r), TRUE, order, fail_at) IN
    IF ~templated.data.ok THEN Finished(templated.data, templated.session)
    ELSE Finished(Ok(is_created), templated.session)

TemplateModify(a, changes, r, order, fail_at) ==
    IF VecContains(changes, "Content")
    THEN LET templated == do_template(a, Session(r), TRUE, order, fail_at) IN
         IF ~templated.data.ok THEN Finished(templated.data, templated.session)
         ELSE Finished(Ok(is_modified(changes)), templated.session)
    ELSE LET done == ProcessAttributes(Session(r), a.attributes, changes, fail_at) IN
         IF done.failed THEN StepFailed(done)
         ELSE Finished(Ok(is_modified(changes)), done)

\* TemplateAction::dispatch
TemplateDispatch(request_type, changes, fail_at) ==
    /\ action.module = "template"
    /\ \E order \in IterationOrders(HostAncestors(BlendDepthLimit)) :
          FileDispatched(request_type, changes, fail_at,
             CASE request_type = "Query" ->
                    TemplateQuery(action, remote, order, fail_at)
               [] request_type = "Create" ->
                    TemplateCreate(action, remote, order, fail_at)
               [] request_type = "Modify" ->
                    TemplateModify(action, changes, remote, order, fail_at)
               [] OTHER -> Finished(Err(not_supported), Session(remote)))
    /\ UNCHANGED <<action, lib_args, lib_pc>>
    /\ FrameNotify
    /\ FrameCache
    /\ FrameOs
    /\ FrameVars
    /\ FrameGroups
    /\ FrameWalk

----------------------------------------------------------------------------
(* The git module (src/modules/files/git.rs).  What git itself does is taken *)
(* as: the repo's HEAD is its branch main; clone needs a directory without   *)
(* a repository and leaves one on main at its tip; pull brings the branch    *)
(* checked out to its upstream tip; switch checks the branch out at its      *)
(* upstream tip; ls-remote lists HEAD first; rev-parse HEAD fails in a       *)
(* repository without a commit.  An ssh repo differs only in how the         *)
(* command is forwarded.                                                     *)

\* the branch that the repo's HEAD names
HeadBranch == "main"

Repo(version, branch) == [version |-> version, branch |-> branch]

Directory == RemoteFile("directory", DefaultOwner, DefaultGroup, DefaultMode)

\* handle.remote.create_directory
CreateDirectory(session, fail_at) ==
    Step(session, "create_directory",
         [session.remote EXCEPT !.file = IF @ = None THEN Some(Directory) ELSE @],
         fail_at)

\* GitAction::clone
clone(a, session, fail_at) ==
    LET made == CreateDirectory(session, fail_at) IN
    StepIf(made, "git clone", made.remote.repo = None,
           [made.remote EXCEPT !.repo = Some(Repo(Some(made.remote.upstream[HeadBranch]),
                                                 HeadBranch))],
           fail_at)

\* GitAction::switch_branch
switch_branch(a, session, fail_at) ==
    StepIf(session, "git switch", session.remote.repo # None,
           [session.remote EXCEPT
               !.repo = Some(Repo(Some(session.remote.upstream[a.branch]), a.branch))],
           fail_at)

\* GitAction::pull
pull(a, session, fail_at) ==
    StepIf(session, "git pull", session.remote.repo # None,
           [session.remote EXCEPT
               !.repo = Some(Repo(Some(session.remote.upstream[@[1].branch]),
                                  @[1].branch))],
           fail_at)

\* lines 94-148
GitQuery(a, r, fail_at) ==
    LET asked == QueryAttributesSteps(Session(r), a.attributes, fail_at) IN
    IF asked.failed THEN StepFailed(asked)
    ELSE IF asked.remote.file = None THEN Finished(Ok(needs_creation), asked)
    ELSE
    LET dot_git == Step(asked, "get_mode .git", asked.remote, fail_at) IN
    IF dot_git.failed THEN StepFailed(dot_git)
    ELSE IF dot_git.remote.repo = None THEN Finished(Ok(needs_creation), dot_git)
    ELSE
    LET repo == dot_git.remote.repo[1]
        attribute_changes == AttributeChanges(a.attributes, dot_git.remote.file[1])
        local == Step(dot_git, "git rev-parse HEAD", dot_git.remote, fail_at)
        answer(changes, session) ==
            IF changes # <<>>
            THEN Finished(Ok(needs_modification(changes)), session)
            ELSE Finished(Ok(is_matched), session)
    IN  IF local.failed THEN StepFailed(local)
        ELSE IF repo.version = None
        THEN answer(attribute_changes \o <<"Version">>, local)
        ELSE
        LET upstream == Step(local, "git ls-remote", local.remote, fail_at)
            branch == Step(upstream, "git rev-parse --abbrev-ref HEAD",
                           upstream.remote, fail_at)
        IN  IF branch.failed THEN StepFailed(branch)
            ELSE answer(attribute_changes
                          \o (IF a.update /\ r.upstream[HeadBranch] # repo.version[1]
                              THEN <<"Version">> ELSE <<>>)
                          \o (IF repo.branch # a.branch
                              THEN <<"Branch">> ELSE <<>>),
                        branch)

\* lines 150-156
GitCreate(a, r, fail_at) ==
    LET made == CreateDirectory(Session(r), fail_at)
        attributed == ProcessAllAttributes(made, a.attributes, fail_at)
        cloned == clone(a, attributed, fail_at)
        switched == switch_branch(a, cloned, fail_at)
    IN  IF switched.failed THEN StepFailed(switched)
        ELSE Finished(Ok(is_created), switched)

\* a Modify leg that switches the branch before it pulls
GitModifySwitchesFirst(a, changes, r, fail_at) ==
    LET attributed == ProcessAttributes(Session(r), a.attributes, changes, fail_at)
        switched == IF VecContains(changes, "Branch")
                    THEN switch_branch(a, attributed, fail_at)
                    ELSE attributed
        pulled == IF VecContains(changes, "Branch") \/ VecContains(changes, "Version")
                  THEN pull(a, switched, fail_at)
                  ELSE switched
    IN  IF pulled.failed THEN StepFailed(pulled)
        ELSE Finished(Ok(is_modified(changes)), pulled)

\* lines 158-168
GitModify(a, changes, r, fail_at) ==
    LET attributed == ProcessAttributes(Session(r), a.attributes, changes, fail_at)
        pulled == IF VecContains(changes, "Branch") \/ VecContains(changes, "Version")
                  THEN pull(a, attributed, fail_at)
                  ELSE attributed
        switched == IF VecContains(changes, "Branch")
                    THEN switch_branch(a, pulled, fail_at)
                    ELSE pulled
    IN  IF switched.failed THEN StepFailed(switched)
        ELSE Finished(Ok(is_modified(changes)), switched)

\* GitAction::dispatch
GitDispatch(request_type, changes, fail_at) ==
    /\ action.module = "git"
    /\ FileDispatched(request_type, changes, fail_at,
          CASE request_type = "Query"  -> GitQuery(action, remote, fail_at)
            [] request_type = "Create" -> GitCreate(action, remote, fail_at)
            [] request_type = "Modify" -> GitModify(action, changes, remote, fail_at)
            [] OTHER -> Finished(Err(not_supported), Session(remote)))
    /\ UNCHANGED <<action, lib_args, lib_pc>>
    /\ FrameNotify
    /\ FrameCache
    /\ FrameOs
    /\ FrameVars
    /\ FrameGroups
    /\ FrameWalk

----------------------------------------------------------------------------
(* Dispatch: one action on one host, as evaluate produced it, and any        *)
(* sequence of requests of any kind made of it.  The host is in group 1 of   *)
(* the chain inventory or in no group; each group of the chain defines K.    *)

Conditions ==
    { [param |-> "rc", is |-> 0],
      [param |-> "rc", is |-> 1],
      [param |-> "nope", is |-> 0],
      [unparsable |-> TRUE] }

Options(S) == {None} \cup { Some(x) : x \in S }

ShellCmds ==
    { <<"l", "s">>,
      <<"l", "s", ";", "l", "s">> }

\* evaluate (shell.rs:54-77) has rendered cmd and chosen unsafe_
ShellActions ==
    { [module |-> "shell", cmd |-> c, save |-> s, failed_when |-> f,
       changed_when |-> w, unsafe_ |-> u] :
         c \in ShellCmds, s \in Options({"saved"}), f \in Options(Conditions),
         w \in Options(Conditions), u \in BOOLEAN }

EchoActions == { [module |-> "echo", msg |-> "hello"] }

\* FileAttributesEvaluated
AttributeSets ==
    Options({ [owner |-> Some("root"), group |-> None, mode |-> Some("600")] })

CopyActions ==
    { [module |-> "copy", src |-> "/p", src_content |-> <<"new">>, attributes |-> t] :
         t \in AttributeSets }

TemplateActions ==
    { [module |-> "template", src_template |-> t, attributes |-> None] :
         t \in { [literal |-> "new"], [variable |-> "K"] } }

GitActions ==
    { [module |-> "git", branch |-> b, update |-> u, attributes |-> t] :
         b \in {"main", "dev"}, u \in BOOLEAN, t \in AttributeSets }

Actions ==
    ShellActions \cup EchoActions \cup CopyActions \cup TemplateActions
       \cup GitActions

\* the file or directory that may be at the action's destination
RemoteFiles ==
    Options({ RemoteFile(<<"new">>, DefaultOwner, DefaultGroup, DefaultMode),
              RemoteFile(<<"old">>, "root", DefaultGroup, DefaultMode) })

RemoteRepos ==
    Options({ Repo(None, "main"), Repo(Some("v1"), "main"), Repo(Some("v2"), "dev") })

\* the tips of the repo's branches: dev is where main is, or ahead of it
Upstreams ==
    { ("main" :> "v2") @@ ("dev" :> "v2"),
      ("main" :> "v2") @@ ("dev" :> "v3") }

NoUpstream == ("main" :> "v2") @@ ("dev" :> "v2")

Remotes(module) ==
    IF module = "git"
    THEN { [file |-> f, repo |-> r, upstream |-> u] :
              f \in Options({Directory}), r \in RemoteRepos, u \in Upstreams }
            \ { [file |-> None, repo |-> r, upstream |-> u] :
                   r \in RemoteRepos \ {None}, u \in Upstreams }
    ELSE IF module \in {"copy", "template"}
    THEN { [file |-> f, repo |-> None, upstream |-> NoUpstream] : f \in RemoteFiles }
    ELSE { [file |-> None, repo |-> None, upstream |-> NoUpstream] }

\* the requested changes of a Modify
ChangeLists ==
    IF action.module = "git"
    THEN { <<"Owner", "Mode">>, <<"Version">>, <<"Branch">>, <<"Version", "Branch">> }
    ELSE { <<"Content">>, <<"Mode">>, <<"Owner", "Mode">>, <<"Mode", "Content">> }

\* request.changes
RequestChanges(request_type) ==
    IF request_type = "Modify" THEN ChangeLists ELSE {<<>>}

\* which step of a dispatch fails: none, or one of the first six
FailAts == 0..6

\* the host of a dispatch: only a template reads K
DispatchHost ==
    /\ notified_handlers = EmptyMap
    /\ checksum_cache = EmptyMap
    /\ checksum_cache_task_id = 0
    /\ os_type = Some("Linux")
    /\ raised = {}
    /\ stored_under = EmptyMap
    /\ highest_task_id = 0
    /\ walk_stack = <<>>
    /\ walk_pc = "done"
    /\ ChainInventory
    /\ groups \in (IF action.module = "template" THEN {{}, {1}} ELSE {{}})
    /\ variables \in (IF action.module = "template"
                      THEN {Mapping(EmptyMap), Mapping("K" :> Scalar(7))}
                      ELSE {Mapping(EmptyMap)})
    /\ facts = Mapping(EmptyMap)
    /\ call = [op |-> "new"]
    /\ old = HostState
    /\ lib_args = [fn |-> "none"]
    /\ lib_pc = "done"

InitDispatch ==
    /\ action \in Actions
    /\ remote \in Remotes(action.module)
    /\ remote_log = <<>>
    /\ dispatched = <<>>
    /\ DispatchHost

NextDispatch ==
    \/ \E request_type \in RequestTypes, outcome \in RunOutcomes :
          ShellDispatch(request_type, outcome) /\ UNCHANGED dispatched
    \/ \E request_type \in RequestTypes :
          EchoDispatch(request_type) /\ UNCHANGED dispatched
    \/ \E request_type \in RequestTypes, fail_at \in FailAts :
          \E changes \in RequestChanges(request_type) :
             CopyDispatch(request_type, changes, fail_at) /\ UNCHANGED dispatched
    \/ \E request_type \in RequestTypes, fail_at \in FailAts :
          \E changes \in RequestChanges(request_type) :
             TemplateDispatch(request_type, changes, fail_at) /\ UNCHANGED dispatched
    \/ \E request_type \in RequestTypes, fail_at \in FailAts :
          \E changes \in RequestChanges(request_type) :
             GitDispatch(request_type, changes, fail_at) /\ UNCHANGED dispatched

SpecDispatch == InitDispatch /\ [][NextDispatch]_vars

----------------------------------------------------------------------------
(* Convergence: a file action on a host that nothing else touches, every     *)
(* step of every dispatch going through, and the last three dispatches kept. *)

\* the dispatch just recorded joins the two before it
Noted ==
    LET all == Append(dispatched,
                      [request_type |-> call'.request_type,
                       status |-> Response(call'.ret).status,
                       changes |-> Response(call'.ret).changes])
    IN  dispatched' = IF Len(all) > 3 THEN Tail(all) ELSE all

InitConverge ==
    /\ action \in CopyActions \cup TemplateActions \cup GitActions
    /\ remote \in Remotes(action.module)
    /\ remote_log = <<>>
    /\ dispatched = <<>>
    /\ DispatchHost

NextConverge ==
    \/ \E request_type \in RequestTypes :
          \E changes \in RequestChanges(request_type) :
          CopyDispatch(request_type, changes, 0) /\ Noted
    \/ \E request_type \in RequestTypes :
          \E changes \in RequestChanges(request_type) :
          TemplateDispatch(request_type, changes, 0) /\ Noted
    \/ \E request_type \in RequestTypes :
          \E changes \in RequestChanges(request_type) :
          GitDispatch(request_type, changes, 0) /\ Noted

SpecConverge == InitConverge /\ [][NextConverge]_vars

----------------------------------------------------------------------------
(* Properties of the shell action's Execute *)

\* the last call was an Execute of a shell action whose command reached the
\* remote end and came back with a return code
ShellRan ==
    /\ action.module = "shell"
    /\ call.op = "dispatch"
    /\ call.request_type = "Execute"
    /\ remote_log # <<>>
    /\ call.outcome.connected

\* a condition on the return code, and what it says of a return code
OnReturnCode(condition) ==
    /\ "param" \in DOMAIN condition
    /\ condition.param = "rc"

SaysOf(condition, rc) == condition.is = rc

\* a condition, if there is one, that can be evaluated
Evaluates(option) == option = None \/ OnReturnCode(option[1])

\* the failed decision and the changed decision, where they can be taken
FailedDecision ==
    IF action.failed_when = None THEN call.outcome.rc # 0
    ELSE SaysOf(action.failed_when[1], call.outcome.rc)

ChangedDecision ==
    IF action.changed_when = None THEN TRUE
    ELSE SaysOf(action.changed_when[1], call.outcome.rc)

\* C17: an Execute of the shell action without conditions is Failed when the
\* return code is not zero and IsExecuted when it is zero; without a
\* failed_when, with return code 0 and a changed_when that evaluates to
\* false, it is IsPassive.
ShellGatingDefaults ==
    ShellRan =>
       LET rc == call.outcome.rc
           response == Response(call.ret)
       IN  /\ (action.failed_when = None /\ action.changed_when = None /\ rc # 0)
                 => (~call.ret.ok /\ response.status = "Failed")
           /\ (action.failed_when = None /\ action.changed_when = None /\ rc = 0)
                 => (call.ret.ok /\ response.status = "IsExecuted")
           /\ (/\ action.failed_when = None
               /\ rc = 0
               /\ action.changed_when # None
               /\ OnReturnCode(action.changed_when[1])
               /\ ~SaysOf(action.changed_when[1], rc))
                 => (call.ret.ok /\ response.status = "IsPassive")

\* C17, its case: return code 0, no failed_when, a changed_when that is
\* false of it, and the outcome IsPassive
ShellGatingDefaultsWitness ==
    /\ ShellRan
    /\ action.failed_when = None
    /\ action.changed_when = Some([param |-> "rc", is |-> 1])
    /\ call.outcome.rc = 0
    /\ call.ret = Ok(is_passive)

\* the command result of the command that ran
RanCommandResult ==
    Some(CommandResult(action.cmd, call.outcome.out, call.outcome.rc))

\* C18 as stated: whenever the failed decision is true the outcome is Failed
\* and carries the command result of the command that ran, whatever the
\* changed_when; the outcome is IsExecuted or IsPassive only when the failed
\* decision is false.
FailedTakesPrecedence ==
    ShellRan =>
       LET response == Response(call.ret) IN
       /\ (Evaluates(action.failed_when) /\ FailedDecision)
             => /\ ~call.ret.ok
                /\ response.status = "Failed"
                /\ response.command_result = RanCommandResult
       /\ response.status \in {"IsExecuted", "IsPassive"}
             => /\ Evaluates(action.failed_when)
                /\ ~FailedDecision

\* C18: whenever the failed decision is true the outcome is Failed, and it
\* carries the command result of the command that ran if the changed_when,
\* when there is one, can be evaluated; the outcome is IsExecuted (changed) or
\* IsPassive (not changed) only when the failed decision is false.
FailedTakesPrecedenceIfChangedEvaluates ==
    ShellRan =>
       LET response == Response(call.ret) IN
       /\ (Evaluates(action.failed_when) /\ FailedDecision)
             => /\ ~call.ret.ok
                /\ response.status = "Failed"
                /\ Evaluates(action.changed_when)
                      => response.command_result = RanCommandResult
       /\ response.status \in {"IsExecuted", "IsPassive"}
             => /\ call.ret.ok
                /\ Evaluates(action.failed_when)
                /\ ~FailedDecision
                /\ Evaluates(action.changed_when)
                /\ (response.status = "IsExecuted") = ChangedDecision

\* C18, its case: the failed decision and the changed decision are both
\* true, and the outcome is Failed with the command result
FailedTakesPrecedenceWitness ==
    /\ ShellRan
    /\ action.failed_when = None
    /\ action.changed_when = Some([param |-> "rc", is |-> 1])
    /\ call.outcome.rc = 1
    /\ ~call.ret.ok
    /\ call.ret.err.status = "Failed"
    /\ call.ret.err.command_result = RanCommandResult

----------------------------------------------------------------------------
(* Properties of dispatch over the five actions *)

\* the request kinds that an action of the module has no leg for
Unsupported(module) ==
    CASE module \in {"copy", "template", "git"} -> {"Execute", "Passive"}
      [] module = "shell" -> {"Create", "Modify", "Passive"}
      [] module = "echo" -> {"Create", "Modify", "Execute"}

\* C19: a dispatch of a request kind that the action does not implement
\* returns the not-supported failure, never a success, and it hands nothing
\* to the remote end, writes no file there and changes nothing of the host.
UnsupportedDispatchRefused ==
    [][ (call'.op = "dispatch" /\ call'.request_type \in Unsupported(action.module))
           => /\ ~call'.ret.ok
              /\ call'.ret.err.status = "Failed"
              /\ call'.ret.err.msg = Some(<<"not supported">>)
              /\ call'.ret.err.command_result = None
              /\ remote_log' = <<>>
              /\ remote' = remote
              /\ HostState' = HostState ]_vars

\* C19, its case: Execute was dispatched on a copy action whose destination
\* differs from the source, and the file is as it was
UnsupportedDispatchRefusedWitness ==
    /\ action.module = "copy"
    /\ call.op = "dispatch"
    /\ call.request_type = "Execute"
    /\ call.ret = Err(not_supported)
    /\ remote.file # None
    /\ remote.file[1].content # action.src_content

----------------------------------------------------------------------------
(* Properties of convergence *)

\* the last three dispatches were Query, Create and Query on a copy or a
\* template action, the first answered NeedsCreation and the second IsCreated
QueriedCreatedQueried ==
    /\ action.module \in {"copy", "template"}
    /\ Len(dispatched) = 3
    /\ dispatched[1].request_type = "Query"
    /\ dispatched[1].status = "NeedsCreation"
    /\ dispatched[2].request_type = "Create"
    /\ dispatched[2].status = "IsCreated"
    /\ dispatched[3].request_type = "Query"

\* the text that the action's template renders to is the same in whatever
\* order the host's ancestor groups are blended
RendersOneText ==
    action.module = "template" =>
       \A o1, o2 \in IterationOrders(HostAncestors(BlendDepthLimit)) :
          RenderForTemplateModule(action.src_template, o1)
             = RenderForTemplateModule(action.src_template, o2)

QueriedModifiedQueried ==
    /\ Len(dispatched) = 3
    /\ dispatched[1].request_type = "Query"
    /\ dispatched[1].status = "NeedsModification"
    /\ dispatched[2].request_type = "Modify"
    /\ dispatched[2].status = "IsModified"
    /\ dispatched[2].changes = dispatched[1].changes
    /\ dispatched[3].request_type = "Query"

\* C21: for copy, template and git, Query (NeedsModification(fields)),
\* Modify(fields) (IsModified), Query within the same unit of work ends with
\* IsMatched, also when the first Query left a checksum in the host's
\* checksum cache under that unit of work.
ModifyThenQueryMatches ==
    QueriedModifiedQueried => dispatched[3].status = "IsMatched"

----------------------------------------------------------------------------
(* Evaluate (the evaluate methods of the five modules and tasks/logic.rs).   *)
(* A declared text is [literal |-> text], which has no expression in it, or  *)
(* [variable |-> name], the expression that prints the variable name.  The   *)
(* helpers of handle.template are outside the sources at hand (design        *)
(* section 4.3): each renders its field against the blended variables of the *)
(* host, screens it for its role and coerces it, and turns a failure of any  *)
(* of these into a failed response.                                           *)

\* str::contains("{{") on a declared text
HasExpression(template) == "literal" \notin DOMAIN template

\* the text that render returned for a declared text
RenderedText(template, template_mode, val) ==
    IF template_mode = "Strict" /\ ~HasExpression(template) THEN val[1] ELSE val

\* a screening error as the message of a failed response
ScreeningMessage(err) == <<err.text>> \o err.input \o <<err.invalid>>

\* a failed rendering as a failed response
Rendered(template, tm, result) ==
    IF result.ok
    THEN Ok(RenderedText(template, tm, result.val))
    ELSE Err(is_failed(result.err))

\* handle.template.string_unsafe_for_shell: rendered, not screened
string_unsafe_for_shell(tm, order, template) ==
    Rendered(template, tm, render(template, Blended(order), tm))

\* a screening that rejected the text as a failed response
ScreenedOrFailed(screened) ==
    IF screened.ok THEN screened
    ELSE Err(is_failed(ScreeningMessage(screened.err)))

StrictlyScreened(result) ==
    IF ~result.ok THEN result
    ELSE ScreenedOrFailed(screen_general_input_strict(result.val))

\* handle.template.string: rendered, then screened strictly
string(tm, order, template) ==
    StrictlyScreened(string_unsafe_for_shell(tm, order, template))

WithoutSpaces(result) ==
    IF ~result.ok THEN result
    ELSE IF Contains(result.val, <<" ">>)
    THEN Err(is_failed(<<"spaces are not allowed">>))
    ELSE result

\* handle.template.string_no_spaces
string_no_spaces(tm, order, template) ==
    WithoutSpaces(string(tm, order, template))

\* the option forms: an absent field stays absent
OptionOf(template, result) ==
    IF template = None THEN Ok(None)
    ELSE IF result.ok THEN Ok(Some(result.val)) ELSE result

string_option_unsafe_for_shell(tm, order, template) ==
    IF template = None THEN Ok(None)
    ELSE OptionOf(template, string_unsafe_for_shell(tm, order, template[1]))

string_option(tm, order, template) ==
    IF template = None THEN Ok(None)
    ELSE OptionOf(template, string(tm, order, template[1]))

string_option_no_spaces(tm, order, template) ==
    IF template = None THEN Ok(None)
    ELSE OptionOf(template, string_no_spaces(tm, order, template[1]))

Trimmed(result) ==
    IF result.ok THEN Ok(Some(Trim(result.val))) ELSE result

string_option_trim(tm, order, template) ==
    IF template = None THEN Ok(None)
    ELSE Trimmed(string(tm, order, template[1]))

string_option_default(tm, order, template, default) ==
    IF template = None THEN Ok(default) ELSE string(tm, order, template[1])

\* handle.template.no_template_string_option_trim: the text as declared
no_template_string_option_trim(input) ==
    IF input = None THEN None ELSE Some(Trim(input[1]))

PathScreened(result) ==
    IF ~result.ok THEN result
    ELSE ScreenedOrFailed(screen_path(result.val))

\* handle.template.path
path(tm, order, template) ==
    PathScreened(string_unsafe_for_shell(tm, order, template))

\* str::parse::<bool>
ParseBool(text) ==
    IF text = <<"true">> THEN Ok(TRUE)
    ELSE IF text = <<"false">> THEN Ok(FALSE)
    ELSE Err(<<"not a boolean">>)

DigitValue ==
    ("0" :> 0) @@ ("1" :> 1) @@ ("2" :> 2) @@ ("3" :> 3) @@ ("4" :> 4) @@
    ("5" :> 5) @@ ("6" :> 6) @@ ("7" :> 7) @@ ("8" :> 8) @@ ("9" :> 9)

\* str::parse::<u64> on a text of digits
RECURSIVE ParseDigits(_)
ParseDigits(text) ==
    IF text = <<>> THEN 0
    ELSE 10 * ParseDigits(SubSeq(text, 1, Len(text) - 1)) + DigitValue[text[Len(text)]]

ParseInteger(text) ==
    IF text # <<>> /\ \A i \in 1..Len(text) : text[i] \in DOMAIN DigitValue
    THEN Ok(ParseDigits(text))
    ELSE Err(<<"not an integer">>)

\* a text that does not parse as a failed response
ParsedOrFailed(value) ==
    IF value.ok THEN value ELSE Err(is_failed(value.err))

Parsed(result, type) ==
    IF ~result.ok THEN result
    ELSE ParsedOrFailed(IF type = "bool" THEN ParseBool(result.val)
                        ELSE ParseInteger(result.val))

\* the coercions: an absent field takes its default; in mode Off nothing is
\* rendered and the default stands in; a rendered text that does not parse is
\* a failure
Coerced(tm, order, template, default, type) ==
    IF template = None \/ tm = "Off" THEN Ok(default)
    ELSE Parsed(string(tm, order, template[1]), type)

boolean_option_default_false(tm, order, template) ==
    Coerced(tm, order, template, FALSE, "bool")

boolean_option_default_true(tm, order, template) ==
    Coerced(tm, order, template, TRUE, "bool")

integer_option_to_integer(tm, order, template, default) ==
    Coerced(tm, order, template, default, "u64")

\* handle.template.find_file_path and find_template_path: the file is looked
\* for on the control machine
find_path(tm, found, src) ==
    IF tm = "Off" \/ found THEN Ok(src)
    ELSE Err(is_failed(<<"cannot find file">>))

\* the struct FileAttributesEvaluated out of its fields, each with the ?
\* operator: owner and group are strings, mode is an octal string
FileAttributesEvaluated(tm, owner, group, mode) ==
    IF ~owner.ok THEN owner
    ELSE IF ~group.ok THEN group
    ELSE IF ~mode.ok THEN mode
    ELSE IF mode.val # None /\ tm = "Strict" /\ ~is_octal_string(mode.val[1])
    THEN Err(is_failed(<<"not an octal string">>))
    ELSE Ok(Some([owner |-> owner.val, group |-> group.val, mode |-> mode.val]))

\* FileAttributesInput::template
FileAttributesTemplate(tm, order, input) ==
    IF input = None THEN Ok(None)
    ELSE FileAttributesEvaluated(tm,
             string_option(tm, order, input[1].owner),
             string_option(tm, order, input[1].group),
             string_option(tm, order, input[1].mode))

\* which of a sequence of results are failures
Failing(results) == { i \in DOMAIN results : ~results[i].ok }

\* the struct PreLogicEvaluated out of its fields
PreLogicEvaluated(input2, sudo) ==
    [condition |-> input2.condition,
     sudo |-> sudo,
     subscribe |-> no_template_string_option_trim(input2.subscribe),
     items |-> input2.items,
     tags |-> input2.tags]

\* lines 80-87, with a sudo that cannot be resolved dropped
PreLogicFieldsLenient(input2, sudo) ==
    Ok(Some(PreLogicEvaluated(input2, IF sudo.ok THEN sudo.val ELSE None)))

\* a PreLogicInput::template that drops a sudo it cannot resolve
PreLogicTemplateLenient(tm, order, input) ==
    IF input = None THEN Ok(None)
    ELSE PreLogicFieldsLenient(input[1],
             string_option_no_spaces(tm, order, input[1].sudo))

\* lines 80-87: sudo with the ? operator
PreLogicFields(input2, sudo) ==
    IF ~sudo.ok THEN sudo
    ELSE Ok(Some(PreLogicEvaluated(input2, sudo.val)))

\* PreLogicInput::template
PreLogicTemplate(tm, order, input) ==
    IF input = None THEN Ok(None)
    ELSE PreLogicFields(input[1],
             string_option_no_spaces(tm, order, input[1].sudo))

\* the struct PostLogicEvaluated out of its fields, each with the ? operator
PostLogicEvaluated(notify_, delay, ignore_errors, retry) ==
    IF ~notify_.ok THEN notify_
    ELSE IF ~delay.ok THEN delay
    ELSE IF ~ignore_errors.ok THEN ignore_errors
    ELSE IF ~retry.ok THEN retry
    ELSE Ok(Some([notify |-> notify_.val, delay |-> delay.val,
                  ignore_errors |-> ignore_errors.val, retry |-> retry.val]))

\* lines 98-105: the fields of a post-logic block that is there
PostLogicFields(tm, order, input2) ==
    PostLogicEvaluated(
        string_option_trim(tm, order, input2.notify),
        integer_option_to_integer(tm, order, input2.delay, 1),
        boolean_option_default_false(tm, order, input2.ignore_errors),
        integer_option_to_integer(tm, order, input2.retry, 0))

\* a PostLogicInput::template that fills a missing block with the defaults
PostLogicTemplateDefaultBlock(tm, order, input) ==
    IF input = None
    THEN Ok(Some([notify |-> None, delay |-> 1, ignore_errors |-> FALSE, retry |-> 0]))
    ELSE PostLogicFields(tm, order, input[1])

\* PostLogicInput::template
PostLogicTemplate(tm, order, input) ==
    IF input = None THEN Ok(None)
    ELSE PostLogicFields(tm, order, input[1])

\* a text of one piece as the name it spells (a key of a mapping)
Name(text) == text[1]

\* the struct EvaluatedTask out of its fields, each with the ? operator
EvaluatedTask(action_, with, and) ==
    IF ~action_.ok THEN action_
    ELSE IF ~with.ok THEN with
    ELSE IF ~and.ok THEN and
    ELSE Ok([action |-> action_.val, with |-> with.val, and |-> and.val])

\* the struct ShellAction out of its fields, each with the ? operator
ShellAction(unsafe_, cmd, save, failed_when, changed_when) ==
    IF ~unsafe_.ok THEN unsafe_
    ELSE IF ~cmd.ok THEN cmd
    ELSE IF ~save.ok THEN save
    ELSE IF ~failed_when.ok THEN failed_when
    ELSE IF ~changed_when.ok THEN changed_when
    ELSE Ok([module |-> "shell",
             unsafe_ |-> unsafe_.val,
             cmd |-> cmd.val,
             save |-> IF save.val = None THEN None ELSE Some(Name(save.val[1])),
             failed_when |-> failed_when.val,
             changed_when |-> changed_when.val])

\* ShellTask::evaluate
ShellEvaluate(task, tm, order) ==
    EvaluatedTask(
        ShellAction(
            IF ~HasExpression(task.cmd)
            THEN Ok(TRUE)
            ELSE boolean_option_default_false(tm, order, task.unsafe_),
            string_unsafe_for_shell(tm, order, task.cmd),
            string_option_no_spaces(tm, order, task.save),
            string_option_unsafe_for_shell(tm, order, task.failed_when),
            string_option_unsafe_for_shell(tm, order, task.changed_when)),
        PreLogicTemplate(tm, order, task.with),
        PostLogicTemplate(tm, order, task.and))

\* the struct EchoAction
EchoAction(msg) ==
    IF ~msg.ok THEN msg ELSE Ok([module |-> "echo", msg |-> msg.val])

\* EchoTask::evaluate
EchoEvaluate(task, tm, order) ==
    EvaluatedTask(
        EchoAction(string_unsafe_for_shell(tm, order, task.msg)),
        PreLogicTemplate(tm, order, task.with),
        PostLogicTemplate(tm, order, task.and))

\* src is rendered first and then looked for
FoundPath(tm, found, src) ==
    IF ~src.ok THEN src ELSE find_path(tm, found, src.val)

\* the structs CopyAction and TemplateAction out of their fields, each with
\* the ? operator
FileAction(module, src, dest, attributes) ==
    IF ~src.ok THEN src
    ELSE IF ~dest.ok THEN dest
    ELSE IF ~attributes.ok THEN attributes
    ELSE Ok([module |-> module,
             src |-> src.val,
             dest |-> dest.val,
             attributes |-> attributes.val])

\* CopyTask::evaluate and TemplateTask::evaluate
FileEvaluate(task, tm, order) ==
    EvaluatedTask(
        FileAction(task.module,
            FoundPath(tm, task.found, string(tm, order, task.src)),
            path(tm, order, task.dest),
            FileAttributesTemplate(tm, order, task.attributes)),
        PreLogicTemplate(tm, order, task.with),
        PostLogicTemplate(tm, order, task.and))

StrMain == <<"main">>

\* the struct GitAction out of its fields, each with the ? operator (the
\* task declares no ssh_options)
GitAction(repo, path_, branch, accept_keys, update, attributes) ==
    IF ~repo.ok THEN repo
    ELSE IF ~path_.ok THEN path_
    ELSE IF ~branch.ok THEN branch
    ELSE IF ~accept_keys.ok THEN accept_keys
    ELSE IF ~update.ok THEN update
    ELSE IF ~attributes.ok THEN attributes
    ELSE Ok([module |-> "git",
             repo |-> repo.val,
             path |-> path_.val,
             branch |-> branch.val,
             accept_keys |-> accept_keys.val,
             update |-> update.val,
             attributes |-> attributes.val,
             ssh_options |-> <<"-o BatchMode=Yes">>])

\* GitTask::evaluate
GitEvaluate(task, tm, order) ==
    EvaluatedTask(
        GitAction(
            string(tm, order, task.repo),
            path(tm, order, task.path),
            string_option_default(tm, order, task.branch, StrMain),
            boolean_option_default_true(tm, order, task.accept_keys),
            boolean_option_default_true(tm, order, task.update),
            FileAttributesTemplate(tm, order, task.attributes)),
        PreLogicTemplate(tm, order, task.with),
        PostLogicTemplate(tm, order, task.and))

\* IsTask::evaluate
evaluate(task, tm, order) ==
    CASE task.module = "shell" -> ShellEvaluate(task, tm, order)
      [] task.module = "echo" -> EchoEvaluate(task, tm, order)
      [] task.module \in {"copy", "template"} -> FileEvaluate(task, tm, order)
      [] task.module = "git" -> GitEvaluate(task, tm, order)

\* the orchestrator evaluates the declared task once: the action, if there is
\* one, is what later dispatches work on
Evaluate ==
    /\ lib_pc = "declared"
    /\ lib_pc' = "evaluated"
    /\ \E order \in IterationOrders(HostAncestors(BlendDepthLimit)) :
          \E ret \in {evaluate(lib_args.task, lib_args.tm, order)} :
             /\ Record([op |-> "evaluate", order |-> order, ret |-> ret])
             /\ action' = IF ret.ok THEN ret.val.action ELSE action
    /\ UNCHANGED <<lib_args, remote, remote_log, dispatched>>
    /\ FrameNotify
    /\ FrameCache
    /\ FrameOs
    /\ FrameVars
    /\ FrameGroups
    /\ FrameWalk

----------------------------------------------------------------------------
(* Declared tasks: one task on one host, evaluated once in either mode; a    *)
(* shell action that the strict evaluation produced is then dispatched, and  *)
(* the blended variables are read.                                           *)

Lit(text) == [literal |-> text]
Var(name) == [variable |-> name]

TemplateModes == {"Strict", "Off"}

\* the members of a set of records with one field drawn from S
Vary(base, field, S) == { [base EXCEPT ![field] = v] : v \in S }

PreLogicInputs ==
    {None} \cup
    { Some([condition |-> None, subscribe |-> s, sudo |-> u, items |-> None,
            tags |-> None]) :
         s \in {None, Some(<<" ", "up">>)},
         u \in {None, Some(Lit(<<"root">>)), Some(Lit(<<"a", " ", "b">>)),
                Some(Var("nope"))} }

Booleans == {None, Some(Lit(<<"true">>)), Some(Lit(<<"false">>)), Some(Lit(<<"maybe">>))}

PostLogicInputs ==
    {None} \cup
    { Some([notify |-> n, ignore_errors |-> i, retry |-> r, delay |-> d]) :
         n \in {None, Some(Lit(<<"restart">>))},
         i \in {None, Some(Lit(<<"true">>)), Some(Lit(<<"maybe">>))},
         r \in {None, Some(Lit(<<"3">>)), Some(Lit(<<"x">>))},
         d \in {None, Some(Var("K"))} }

ShellBase ==
    [module |-> "shell", cmd |-> Lit(<<"l", "s">>), save |-> None,
     failed_when |-> None, changed_when |-> None, unsafe_ |-> None,
     with |-> None, and |-> None]

ShellTasks ==
    { [ShellBase EXCEPT !.cmd = c, !.unsafe_ = u, !.save = s] :
         c \in {Lit(<<"l", "s">>), Lit(<<"l", "s", ";", "l", "s">>), Var("K")},
         u \in Booleans,
         s \in {None, Some(Lit(<<"saved">>))} }
    \cup Vary(ShellBase, "save", {Some(Lit(<<"a", " ", "b">>)), Some(Lit(<<";">>))})
    \cup Vary(ShellBase, "failed_when",
              {Some(Lit([param |-> "rc", is |-> 1])), Some(Var("nope"))})
    \cup Vary(ShellBase, "changed_when",
              {Some(Lit([param |-> "rc", is |-> 0])), Some(Var("nope"))})
    \cup Vary(ShellBase, "with", PreLogicInputs)
    \cup Vary(ShellBase, "and", PostLogicInputs)

EchoBase == [module |-> "echo", msg |-> Lit(<<"hello">>), with |-> None, and |-> None]

EchoTasks ==
    Vary(EchoBase, "msg", {Var("K")})
    \cup Vary(EchoBase, "with", PreLogicInputs)
    \cup Vary(EchoBase, "and", PostLogicInputs)

AttributeInputs ==
    { None,
      Some([owner |-> Some(Lit(<<"root">>)), group |-> None,
            mode |-> Some(Lit(<<"6", "0", "0">>))]),
      Some([owner |-> None, group |-> Some(Var("K")), mode |-> Some(Lit(<<"9">>))]),
      Some([owner |-> Some(Lit(<<"$">>)), group |-> None, mode |-> None]) }

FileBase(module) ==
    [module |-> module, src |-> Lit(<<"f">>), found |-> TRUE,
     dest |-> Lit(<<"/", "t">>), attributes |-> None, with |-> None, and |-> None]

FileTasks(module) ==
    Vary(FileBase(module), "src", {Lit(<<";">>), Var("K")})
    \cup Vary(FileBase(module), "found", {FALSE})
    \cup Vary(FileBase(module), "dest", {Lit(<<"$">>), Var("K")})
    \cup Vary(FileBase(module), "attributes", AttributeInputs)
    \cup Vary(FileBase(module), "with", PreLogicInputs)
    \cup Vary(FileBase(module), "and", PostLogicInputs)

GitBase ==
    [module |-> "git", repo |-> Lit(<<"r">>), path |-> Lit(<<"/", "t">>),
     branch |-> None, accept_keys |-> None, update |-> None, attributes |-> None,
     with |-> None, and |-> None]

GitTasks ==
    Vary(GitBase, "repo", {Lit(<<"|">>), Var("K")})
    \cup Vary(GitBase, "path", {Lit(<<"$">>), Var("K")})
    \cup Vary(GitBase, "branch", {Some(Lit(<<"dev">>)), Some(Var("K"))})
    \cup Vary(GitBase, "accept_keys", Booleans \cup {Some(Var("K"))})
    \cup Vary(GitBase, "update", Booleans \cup {Some(Var("nope"))})
    \cup Vary(GitBase, "attributes", AttributeInputs)
    \cup Vary(GitBase, "with", PreLogicInputs)
    \cup Vary(GitBase, "and", PostLogicInputs)

Tasks ==
    ShellTasks \cup EchoTasks \cup FileTasks("copy") \cup FileTasks("template")
       \cup GitTasks

\* the host of a declared task: in no group, K defined or not, and a fact
\* under the key that shell tasks save under or not
InitEvaluate ==
    /\ lib_args \in { [task |-> t, tm |-> m] : t \in Tasks, m \in TemplateModes }
    /\ lib_pc = "declared"
    /\ action = [module |-> "none"]
    /\ remote = [file |-> None, repo |-> None, upstream |-> NoUpstream]
    /\ remote_log = <<>>
    /\ dispatched = <<>>
    /\ notified_handlers = EmptyMap
    /\ checksum_cache = EmptyMap
    /\ checksum_cache_task_id = 0
    /\ os_type = Some("Linux")
    /\ raised = {}
    /\ stored_under = EmptyMap
    /\ highest_task_id = 0
    /\ walk_stack = <<>>
    /\ walk_pc = "done"
    /\ ChainInventory
    /\ groups = {}
    /\ variables \in {Mapping(EmptyMap), Mapping("K" :> Scalar(7))}
    /\ facts \in {Mapping(EmptyMap), Mapping("saved" :> Mapping("x" :> Scalar(1)))}
    /\ call = [op |-> "new"]
    /\ old = HostState

NextEvaluate ==
    \/ Evaluate
    \/ /\ lib_pc = "evaluated"
       /\ lib_args.tm = "Strict"
       /\ \E request_type \in {"Query", "Execute"}, outcome \in RunOutcomes :
             ShellDispatch(request_type, outcome) /\ UNCHANGED dispatched
    \/ /\ lib_pc = "evaluated"
       /\ get_blended_variables

SpecEvaluate == InitEvaluate /\ [][NextEvaluate]_vars

----------------------------------------------------------------------------
(* Properties of evaluate *)

\* the templating, screening and coercion of the pre- and post-logic fields
LogicFieldResults(task, tm, order) ==
    (IF task.with = None THEN <<>>
     ELSE <<string_option_no_spaces(tm, order, task.with[1].sudo)>>)
    \o
    (IF task.and = None THEN <<>>
     ELSE <<string_option_trim(tm, order, task.and[1].notify),
            integer_option_to_integer(tm, order, task.and[1].delay, 1),
            boolean_option_default_false(tm, order, task.and[1].ignore_errors),
            integer_option_to_integer(tm, order, task.and[1].retry, 0)>>)

\* the templating, screening and coercion of the action fields, per module
ActionFieldResults(task, tm, order) ==
    CASE task.module = "shell" ->
           (IF HasExpression(task.cmd)
            THEN <<boolean_option_default_false(tm, order, task.unsafe_)>>
            ELSE <<>>)
           \o <<string_unsafe_for_shell(tm, order, task.cmd),
                string_option_no_spaces(tm, order, task.save),
                string_option_unsafe_for_shell(tm, order, task.failed_when),
                string_option_unsafe_for_shell(tm, order, task.changed_when)>>
      [] task.module = "echo" ->
           <<string_unsafe_for_shell(tm, order, task.msg)>>
      [] task.module \in {"copy", "template"} ->
           LET src == string(tm, order, task.src) IN
           <<src>>
           \o (IF src.ok THEN <<find_path(tm, task.found, src.val)>> ELSE <<>>)
           \o <<path(tm, order, task.dest),
                FileAttributesTemplate(tm, order, task.attributes)>>
      [] task.module = "git" ->
           <<string(tm, order, task.repo),
             path(tm, order, task.path),
             string_option_default(tm, order, task.branch, StrMain),
             boolean_option_default_true(tm, order, task.accept_keys),
             boolean_option_default_true(tm, order, task.update),
             FileAttributesTemplate(tm, order, task.attributes)>>

\* some field of the declared task does not come through
SomeFieldFails(task, tm, order) ==
    Failing(ActionFieldResults(task, tm, order)
            \o LogicFieldResults(task, tm, order)) # {}

\* C22: evaluate fails closed for each of the five modules: when the
\* templating, the screening or the boolean or integer coercion of an action
\* field or of a pre- or post-logic field fails, evaluate returns a failure,
\* no action is produced, nothing is handed to the connection and nothing of
\* the host is written
EvaluateFailsClosed ==
    [][(/\ call'.op = "evaluate"
        /\ SomeFieldFails(lib_args.task, lib_args.tm, call'.order))
       => /\ ~call'.ret.ok
          /\ call'.ret.err.status = "Failed"
          /\ action' = action
          /\ action'.module = "none"
          /\ remote' = remote
          /\ remote_log' = <<>>
          /\ HostState' = HostState]_vars

\* an evaluation has failed: in pre-logic, in post-logic, in a coercion and
\* in a screening of an action field
EvaluateFailsClosedWitness ==
    /\ call.op = "evaluate"
    /\ ~call.ret.ok
    /\ SomeFieldFails(lib_args.task, lib_args.tm, call.order)
    /\ lib_args.task.module = "git"
    /\ lib_args.task.update = Some(Lit(<<"maybe">>))

\* the last call was an evaluate that produced an evaluated task
EvaluatedOk == call.op = "evaluate" /\ call.ret.ok

\* the post-logic keys and their defaults
PostLogicDefaults == [ignore_errors |-> FALSE, retry |-> 0, delay |-> 1]

\* the declaration gives the post-logic key a value
Declares(task, key) == task.and # None /\ task.and[1][key] # None

\* C23: for every declared task, each post-logic value absent from the
\* declaration evaluates to its default (ignore_errors false, retry 0,
\* delay 1), whether the key alone or the whole post-logic block is missing
PostLogicDefaultsWhenAbsent ==
    EvaluatedOk =>
       \A key \in DOMAIN PostLogicDefaults :
          ~Declares(lib_args.task, key) =>
             /\ call.ret.val.and # None
             /\ call.ret.val.and[1][key] = PostLogicDefaults[key]

\* C23, as the code has it: a key missing from a post-logic block that is
\* there evaluates to its default; a missing block evaluates to no post-logic
\* at all, and none of the three values exists
PostLogicDefaultsWhenKeyAbsent ==
    EvaluatedOk =>
       /\ lib_args.task.and = None => call.ret.val.and = None
       /\ lib_args.task.and # None =>
             /\ call.ret.val.and # None
             /\ \A key \in DOMAIN PostLogicDefaults :
                   ~Declares(lib_args.task, key) =>
                      call.ret.val.and[1][key] = PostLogicDefaults[key]

\* a block with a notify target and none of the three keys has been evaluated
PostLogicDefaultsWhenKeyAbsentWitness ==
    /\ EvaluatedOk
    /\ lib_args.task.and # None
    /\ lib_args.task.and[1].notify # None
    /\ \A key \in DOMAIN PostLogicDefaults : ~Declares(lib_args.task, key)
    /\ call.ret.val.and[1].delay = 1

----------------------------------------------------------------------------
(* Properties of a declared shell task that is evaluated and executed *)

\* the last call was an Execute of a shell action with a save key, and it
\* returned a response that is no failure
ExecutedWithSave ==
    /\ call.op = "dispatch"
    /\ call.request_type = "Execute"
    /\ action.module = "shell"
    /\ action.save # None
    /\ call.ret.ok

\* the structured result of the command of the last dispatch
StructuredResult == Mapping(build_results_map(call.outcome.rc, call.outcome.out))

\* a fact of the host is defined under key
FactUnder(key) == key \in DOMAIN facts.m

\* C24: when a shell action with save key K completes Execute, the structured
\* result {rc, out} is in the host's own variables under K as the dispatch
\* returns, and the next get_blended_variables returns that mapping under K
SavedResultBlended ==
    [][/\ ExecutedWithSave' =>
             /\ action'.save[1] \in DOMAIN variables'.m
             /\ variables'.m[action'.save[1]] = StructuredResult'
       /\ (ExecutedWithSave /\ call'.op = "get_blended_variables") =>
             /\ action.save[1] \in DOMAIN call'.ret.m
             /\ call'.ret.m[action.save[1]] = StructuredResult]_vars

\* C24, as the code has it: the blend returns that mapping under K when no
\* fact of the host is defined under K; a fact under K is blended over it
SavedResultBlendedUnlessFact ==
    [][/\ ExecutedWithSave' =>
             /\ action'.save[1] \in DOMAIN variables'.m
             /\ variables'.m[action'.save[1]] = StructuredResult'
       /\ (ExecutedWithSave /\ call'.op = "get_blended_variables") =>
             /\ action.save[1] \in DOMAIN call'.ret.m
             /\ call'.ret.m[action.save[1]] =
                   IF FactUnder(action.save[1])
                   THEN Blend(StructuredResult, facts.m[action.save[1]])
                   ELSE StructuredResult]_vars

\* the blended variables have been read on a host without facts, a shell
\* action having saved the result of a command that returned 0 under its key
SavedResultBlendedUnlessFactWitness ==
    /\ call.op = "get_blended_variables"
    /\ action.module = "shell"
    /\ action.save = Some("saved")
    /\ ~FactUnder("saved")
    /\ "saved" \in DOMAIN call.ret.m
    /\ call.ret.m["saved"] = Mapping(build_results_map(0, "fine"))

----------------------------------------------------------------------------
(* The templar alone: one call of render or of test_condition, in either     *)
(* mode, on a template or an expression and a mapping of data.               *)

TemplarData ==
    { Mapping(EmptyMap),
      Mapping("rc" :> Scalar(0)),
      Mapping("rc" :> Scalar(1)),
      Mapping(("rc" :> Scalar(0)) @@ ("K" :> Scalar(7))) }

TemplarExpressions == Conditions \cup { [param |-> "K", is |-> 7] }

TemplarTemplates ==
    { Lit("new"), Var("K"), Var("rc") }
    \cup { [if_true_else_false |-> e] : e \in TemplarExpressions }

TemplarCalls ==
    { [fn |-> "render", template |-> t, data |-> d, template_mode |-> m] :
         t \in TemplarTemplates, d \in TemplarData, m \in TemplateModes }
    \cup { [fn |-> "test_condition", expr |-> e, data |-> d, template_mode |-> m] :
              e \in TemplarExpressions, d \in TemplarData, m \in TemplateModes }

InitTemplar ==
    /\ HostNew
    /\ ChainInventory
    /\ lib_args \in TemplarCalls
    /\ lib_pc = "ready"
    /\ action = [module |-> "none"]
    /\ remote = [file |-> <<>>]
    /\ remote_log = <<>>
    /\ dispatched = <<>>

NextTemplar ==
    \/ LibReturn("render",
                 render(lib_args.template, lib_args.data, lib_args.template_mode))
    \/ LibReturn("test_condition",
                 test_condition(lib_args.expr, lib_args.data, lib_args.template_mode))

SpecTemplar == InitTemplar /\ [][NextTemplar]_vars

\* a call of the templar has returned
TemplarReturned == lib_pc = "done" /\ call.op \in {"render", "test_condition"}

\* the placeholder of mode Off
Placeholder == <<"empty">>

\* C25: in mode Off no expression is rendered: render returns the same fixed
\* placeholder whatever the template and the data and never fails, and
\* test_condition returns true whatever the expression, without evaluating it
OffRendersNothing ==
    (TemplarReturned /\ lib_args.template_mode = "Off") =>
        /\ call.op = "render" => call.ret = Ok(Placeholder)
        /\ call.op = "test_condition" => call.ret = Ok(TRUE)

\* in mode Off a variable that the data do not have has been rendered, and a
\* condition that does not parse has been tested
OffRendersNothingWitness ==
    /\ TemplarReturned
    /\ lib_args.template_mode = "Off"
    /\ \/ /\ call.op = "render"
          /\ lib_args.template = Var("K")
          /\ lib_args.data = Mapping(EmptyMap)
       \/ /\ call.op = "test_condition"
          /\ lib_args.expr = [unparsable |-> TRUE]

\* what the library makes of the wrapper around the expression of the call
WrapperRendered ==
    HandlebarsRenderTemplate([if_true_else_false |-> lib_args.expr], lib_args.data)

\* the wrapper cannot be rendered because the expression reads a parameter
\* that the data do not define
ParameterUndefined ==
    /\ "param" \in DOMAIN lib_args.expr
    /\ lib_args.expr.param \notin DOMAIN lib_args.data.m

\* C26: in mode Strict test_condition returns Ok(true) exactly when the
\* wrapper renders to "true" and Ok(false) for any other text; when the
\* render fails for an undefined parameter it returns the error that says
\* that one or more parameters may be undefined, and never a boolean; any
\* other failure of the render is returned as an error as well
StrictConditionExact ==
    (TemplarReturned /\ call.op = "test_condition"
        /\ lib_args.template_mode = "Strict") =>
        /\ call.ret = Ok(TRUE) <=> WrapperRendered = Ok(<<"true">>)
        /\ (WrapperRendered.ok /\ WrapperRendered.val # <<"true">>)
              => call.ret = Ok(FALSE)
        /\ ParameterUndefined =>
              call.ret = Err(<<"failed to parse conditional: ",
                               ToString(lib_args.expr),
                               ": one or more parameters may be undefined">>)
        /\ ~WrapperRendered.ok => ~call.ret.ok

\* a condition on an undefined parameter has been tested in mode Strict
StrictConditionExactWitness ==
    /\ TemplarReturned
    /\ call.op = "test_condition"
    /\ lib_args.template_mode = "Strict"
    /\ ParameterUndefined
    /\ ~call.ret.ok

\* the last call was an Execute of the shell action that handed its command
\* to the connection without screening it
RanUnscreened ==
    /\ call.op = "dispatch"
    /\ call.request_type = "Execute"
    /\ action.module = "shell"
    /\ remote_log = <<Ran("run_unsafe", action.cmd)>>

\* C27: the command of a shell action goes through the screened path (run,
\* with loose screening) and not through run_unsafe unless the declaration
\* opts into unsafe handling by setting unsafe to true: a declaration that
\* does not set unsafe never has its cmd executed unscreened
UnscreenedOnlyIfDeclaredUnsafe ==
    RanUnscreened => lib_args.task.unsafe_ = Some(Lit(<<"true">>))

----------------------------------------------------------------------------
(* Properties of the dispatch of the file modules *)

\* the last call was a Query that returned a response that is no failure
QueryAnswered ==
    /\ call.op = "dispatch"
    /\ call.request_type = "Query"
    /\ call.ret.ok

\* the file module's target is there, and this is what it differs in from
\* what the action declares (a Query leaves the remote end as it found it)
ContentDiffers ==
    CASE action.module = "copy" ->
           remote.file[1].content # action.src_content
      [] action.module = "template" ->
           \A order \in IterationOrders(HostAncestors(BlendDepthLimit)) :
              LET data == RenderForTemplateModule(action.src_template, order) IN
              ~data.ok \/ remote.file[1].content # data.val
      [] action.module = "git" ->
           \/ remote.repo = None
           \/ remote.repo[1].version = None
           \/ action.update /\ remote.upstream[HeadBranch] # remote.repo[1].version[1]
           \/ remote.repo[1].branch # action.branch

NothingDiffers ==
    /\ remote.file # None
    /\ AttributeChanges(action.attributes, remote.file[1]) = <<>>
    /\ ~ContentDiffers

\* C28: a Query that succeeds returns NeedsCreation, NeedsModification,
\* NeedsExecution, NeedsPassive or IsMatched and nothing else: NeedsExecution
\* for shell, NeedsPassive for echo, and NeedsCreation, NeedsModification or
\* IsMatched for copy, template and git; NeedsModification carries at least
\* one changed field, and IsMatched is returned only when no change was found
QueryOutcomes ==
    QueryAnswered =>
       LET response == call.ret.val IN
       /\ response.status \in {"NeedsCreation", "NeedsModification",
                               "NeedsExecution", "NeedsPassive", "IsMatched"}
       /\ action.module = "shell" => response.status = "NeedsExecution"
       /\ action.module = "echo" => response.status = "NeedsPassive"
       /\ action.module \in {"copy", "template", "git"} =>
             /\ response.status \in {"NeedsCreation", "NeedsModification", "IsMatched"}
             /\ response.status = "NeedsModification" =>
                   /\ response.changes # <<>>
                   /\ \A i \in 1..Len(response.changes) : response.changes[i] \in Fields
             /\ response.status = "IsMatched" =>
                   /\ response.changes = <<>>
                   /\ NothingDiffers

\* a Query of a copy action has found a file whose attributes and content
\* both differ, and named the fields
QueryOutcomesWitness ==
    /\ QueryAnswered
    /\ action.module = "copy"
    /\ call.ret.val.status = "NeedsModification"
    /\ VecContains(call.ret.val.changes, "Mode")
    /\ VecContains(call.ret.val.changes, "Content")

\* the last call was a Modify of a file module
ModifyDispatched ==
    /\ call.op = "dispatch"
    /\ call.request_type = "Modify"
    /\ action.module \in {"copy", "template", "git"}

\* a step of the last dispatch failed: the last one it came to
StepOfDispatchFailed ==
    call.fail_at # 0 /\ Len(remote_log) >= call.fail_at

\* C29: a Modify of copy, template or git that succeeds returns IsModified
\* with exactly the fields of the request's changes, in the order given,
\* neither more nor fewer; a Modify with a failing step returns a failure
ModifyReportsRequestedChanges ==
    ModifyDispatched =>
       /\ call.ret.ok =>
             /\ call.ret.val.status = "IsModified"
             /\ call.ret.val.changes = call.changes
       /\ StepOfDispatchFailed =>
             /\ ~call.ret.ok
             /\ call.ret.err.status = "Failed"

\* a Modify of a git action for version and branch has gone through its
\* three steps
ModifyReportsRequestedChangesWitness ==
    /\ ModifyDispatched
    /\ action.module = "git"
    /\ call.changes = <<"Version", "Branch">>
    /\ call.ret.ok
    /\ Len(remote_log) = 3

\* the last call was a dispatch of a file module
FileModuleDispatched ==
    /\ call.op = "dispatch"
    /\ action.module \in {"copy", "template", "git"}

\* the last step that the last dispatch came to
LastStep == remote_log[Len(remote_log)]

\* C30: once a step of a dispatch fails no further step of it runs and the
\* dispatch returns that failure: in git Create nothing follows a failed
\* create-directory, attribute processing or clone (no switch_branch after a
\* failed clone), in git Modify no switch_branch follows a failed pull, and a
\* Create of copy or template whose transfer failed does not return IsCreated
DispatchStopsAtFailure ==
    FileModuleDispatched =>
       /\ StepOfDispatchFailed =>
             /\ Len(remote_log) = call.fail_at
             /\ ~call.ret.ok
             /\ call.ret.err.status = "Failed"
       /\ (action.module \in {"copy", "git"} /\ remote_log # <<>> /\ ~call.ret.ok) =>
             /\ call.ret.err.msg = Some(<<"step failed", LastStep>>)
             /\ LastStep # "git switch" => ~VecContains(remote_log, "git switch")
       /\ (call.request_type = "Create" /\ call.ret.ok) =>
             /\ call.ret.val.status = "IsCreated"
             /\ ~StepOfDispatchFailed
             /\ remote.file # None

\* the clone of a git Create has failed, and the log ends with it
DispatchStopsAtFailureWitness ==
    /\ FileModuleDispatched
    /\ action.module = "git"
    /\ call.request_type = "Create"
    /\ StepOfDispatchFailed
    /\ LastStep = "git clone"
    /\ ~call.ret.ok

----------------------------------------------------------------------------
(* Facts: a host with some facts, variables, cached checksums and notified   *)
(* handlers, and any sequence of fact updates                                *)

FactDocuments ==
    { Mapping(EmptyMap),
      Mapping("K" :> Scalar(1)),
      Mapping("K" :> Mapping("a" :> Scalar(1) @@ "b" :> Scalar(1))),
      Mapping("K" :> Mapping("a" :> Mapping("x" :> Scalar(1))) @@ "J" :> Scalar(1)) }

FactUpdates ==
    { Mapping("K" :> Scalar(5)),
      Mapping("K" :> Mapping("b" :> Scalar(6))),
      Mapping("K" :> Mapping("a" :> Mapping("y" :> Scalar(7)))),
      Mapping("J" :> Mapping("a" :> Scalar(8))) }

InitFacts ==
    /\ HostNew
    /\ TaskIdle
    /\ ChainInventory

NextFacts ==
    \/ \E mapping \in {Mapping("K" :> Scalar(2))} : set_variables(mapping)
    \/ \E mapping \in FactUpdates : update_facts(mapping)
    \/ \E mapping \in FactUpdates \cup FactDocuments : update_facts2(mapping)
    \/ \E checksum \in {"x"} : set_checksum_cache("/p", checksum)
    \/ \E signal \in {"restart"} : notify(0, signal)

SpecFacts == InitFacts /\ [][NextFacts]_vars

\* the keys of a document at every nesting depth, each as the path of keys
\* that leads to it
RECURSIVE KeyPaths(_)
KeyPaths(v) ==
    IF ~IsMapping(v) THEN {}
    ELSE UNION { {<<k>>} \cup { <<k>> \o p : p \in KeyPaths(v.m[k]) } : k \in DOMAIN v.m }

\* the value under a path of keys
RECURSIVE ValueAt(_, _)
ValueAt(v, p) ==
    IF p = <<>> THEN v ELSE ValueAt(v.m[Head(p)], Tail(p))

\* the new mapping gives a key above p a value that is not a mapping
ReplacedAbove(mapping, p) ==
    \E i \in 1..(Len(p) - 1) :
        /\ SubSeq(p, 1, i) \in KeyPaths(mapping)
        /\ ~IsMapping(ValueAt(mapping, SubSeq(p, 1, i)))

FactsUpdated == call.op \in {"update_facts", "update_facts2"}

\* what an update of the facts leaves alone
FactsUpdateFrame ==
    /\ variables = old.variables
    /\ checksum_cache = old.checksum_cache
    /\ checksum_cache_task_id = old.checksum_cache_task_id
    /\ notified_handlers = old.notified_handlers

\* a key that the new mapping gives a value that is not a mapping has that
\* value afterwards
NewLeavesTaken ==
    \A p \in KeyPaths(call.mapping) :
        ~IsMapping(ValueAt(call.mapping, p)) =>
            /\ p \in KeyPaths(facts)
            /\ ValueAt(facts, p) = ValueAt(call.mapping, p)

\* C31: update_facts and update_facts2 deep-merge the mapping into the facts:
\* every fact key, at any nesting depth, that is not in the new mapping keeps
\* its previous value, the keys of the new mapping take the new value, and the
\* host's variables, checksum cache and notify state are unchanged.
FactsDeepMerged ==
    FactsUpdated =>
        /\ \A p \in KeyPaths(old.facts) \ KeyPaths(call.mapping) :
              /\ p \in KeyPaths(facts)
              /\ ValueAt(facts, p) = ValueAt(old.facts, p)
        /\ NewLeavesTaken
        /\ FactsUpdateFrame

\* C31, amended: a fact key that is not in the new mapping keeps its previous
\* value unless the new mapping gives a key above it a value that is not a
\* mapping, which replaces it and everything under it; a key of the new
\* mapping takes the new value, merged key by key with the previous one when
\* both are mappings; variables, checksum cache and notify state are
\* unchanged.
FactsDeepMergedUnlessReplaced ==
    FactsUpdated =>
        /\ \A p \in KeyPaths(old.facts) \ KeyPaths(call.mapping) :
              IF ReplacedAbove(call.mapping, p)
              THEN p \notin KeyPaths(facts)
              ELSE /\ p \in KeyPaths(facts)
                   /\ ValueAt(facts, p) = ValueAt(old.facts, p)
        /\ NewLeavesTaken
        /\ \A p \in KeyPaths(call.mapping) :
              /\ p \in KeyPaths(facts)
              /\ IsMapping(ValueAt(call.mapping, p)) =>
                    IF p \in KeyPaths(old.facts) /\ IsMapping(ValueAt(old.facts, p))
                    THEN /\ IsMapping(ValueAt(facts, p))
                         /\ DOMAIN ValueAt(facts, p).m =
                               DOMAIN ValueAt(old.facts, p).m
                                  \cup DOMAIN ValueAt(call.mapping, p).m
                    ELSE ValueAt(facts, p) = ValueAt(call.mapping, p)
        /\ FactsUpdateFrame

\* an update that merged into a nested mapping: a nested key stayed, another
\* changed, and the host had variables, a cached checksum and a notified
\* handler to leave alone
FactsDeepMergedUnlessReplacedWitness ==
    /\ FactsUpdated
    /\ \E p \in KeyPaths(old.facts) \ KeyPaths(call.mapping) :
          /\ Len(p) >= 2
          /\ ~ReplacedAbove(call.mapping, p)
    /\ \E p \in KeyPaths(old.facts) \cap KeyPaths(call.mapping) :
          ValueAt(facts, p) # ValueAt(old.facts, p)
    /\ variables # Mapping(EmptyMap)
    /\ checksum_cache # EmptyMap
    /\ notified_handlers # EmptyMap

----------------------------------------------------------------------------
(* Ancestry: group graphs with chains longer than the depth bound of the     *)
(* membership query, a host that joins groups, and the ancestor queries      *)

LineLength == 14
LineNames == 1..LineLength

\* a chain 1 -> 2 -> ... -> n
Line(n) == [g \in LineNames |-> IF g < n THEN {g + 1} ELSE {}]

\* the chain closed into a cycle
LineRing == [g \in LineNames |-> {(g % LineLength) + 1}]

LineGraphs ==
    { Line(n) : n \in {3, MembershipDepthLimit + 1, MembershipDepthLimit + 2,
                       MembershipDepthLimit + 3, LineLength} }
       \cup {LineRing}

InitAncestry ==
    /\ HostNew
    /\ TaskIdle
    /\ group_parents \in LineGraphs
    /\ group_variables = [g \in LineNames |-> Mapping(EmptyMap)]

NextAncestry ==
    \/ \E name \in {1, 2} : add_group(name)
    \/ \E group_name \in LineNames : has_ancestor_group(group_name)
    \/ \E depth_limit \in {MembershipDepthLimit, NamesDepthLimit} :
          get_ancestor_groups(depth_limit)
    \/ get_ancestor_group_names

SpecAncestry == InitAncestry /\ [][NextAncestry]_vars

\* the groups reached from the groups S by at most n steps to a parent
RECURSIVE Within(_, _)
Within(S, n) ==
    IF n = 0 THEN S
    ELSE Within(S \cup UNION { group_parents[g] : g \in S }, n - 1)

MembershipAsked == call.op = "has_ancestor_group"

\* C32: has_ancestor_group(g), which traverses with depth bound 10, returns
\* true exactly when g is in get_ancestor_group_names(), which traverses with
\* depth bound 20, also for ancestry chains longer than 10.
MembershipMatchesNames ==
    MembershipAsked =>
        call.ret = (call.group_name \in HostAncestors(NamesDepthLimit))

\* C32, amended: has_ancestor_group(g) is true exactly for the groups within
\* 11 steps to a parent of a direct group, get_ancestor_group_names() lists
\* the groups within 21 steps, so a group that has_ancestor_group accepts is
\* always listed, and the two agree on every group when no group is first
\* reached by 12 to 21 steps.
MembershipMatchesNamesWithinBound ==
    MembershipAsked =>
        /\ call.ret = (call.group_name \in Within(groups, MembershipDepthLimit + 1))
        /\ HostAncestors(NamesDepthLimit) = Within(groups, NamesDepthLimit + 1)
        /\ call.ret => call.group_name \in HostAncestors(NamesDepthLimit)
        /\ Within(groups, MembershipDepthLimit + 1) = Within(groups, NamesDepthLimit + 1)
              => call.ret = (call.group_name \in HostAncestors(NamesDepthLimit))

\* has_ancestor_group accepted a group that is 11 steps above a direct group,
\* on a chain that goes on beyond it
MembershipMatchesNamesWithinBoundWitness ==
    /\ MembershipAsked
    /\ call.ret
    /\ call.group_name \notin Within(groups, MembershipDepthLimit)
    /\ Within(groups, MembershipDepthLimit + 1) # Within(groups, NamesDepthLimit + 1)

----------------------------------------------------------------------------
(* The last-seen task id of the checksum cache *)

\* C33: the host's last-seen checksum task id never decreases and always
\* equals the maximum task id ever passed to get_checksum_cache (0 at first);
\* a get_checksum_cache with a task id lower than or equal to it neither
\* changes that id nor clears the cache, and set_checksum_cache never changes
\* it.
LastSeenTaskIdIsHighest ==
    /\ checksum_cache_task_id = highest_task_id
    /\ checksum_cache_task_id >= old.checksum_cache_task_id
    /\ (call.op = "get_checksum_cache" /\ call.task_id <= old.checksum_cache_task_id)
          => /\ checksum_cache_task_id = old.checksum_cache_task_id
             /\ checksum_cache = old.checksum_cache
    /\ call.op = "set_checksum_cache"
          => checksum_cache_task_id = old.checksum_cache_task_id

\* a lookup under a task id below the last-seen one, made while the cache held
\* a checksum, left both alone
LastSeenTaskIdIsHighestWitness ==
    /\ call.op = "get_checksum_cache"
    /\ call.task_id < old.checksum_cache_task_id
    /\ old.checksum_cache # EmptyMap
    /\ checksum_cache = old.checksum_cache
    /\ checksum_cache_task_id = highest_task_id
    /\ highest_task_id > 1

----------------------------------------------------------------------------
(* The two general screenings against each other *)

StrictAccepted ==
    /\ call.op = "screen_general_input_strict"
    /\ call.ret.ok

\* C34: strict screening is at least as restrictive as loose screening: an
\* input that screen_general_input_strict accepts is accepted by
\* screen_general_input_loose with the same returned value, and screening the
\* accepted value again with either function returns it unchanged.
StrictImpliesLoose ==
    /\ StrictAccepted =>
          /\ screen_general_input_loose(lib_args.input) = Ok(call.ret.val)
          /\ screen_general_input_strict(call.ret.val) = Ok(call.ret.val)
          /\ screen_general_input_loose(call.ret.val) = Ok(call.ret.val)
    /\ (call.op = "screen_general_input_loose" /\ call.ret.ok) =>
          screen_general_input_loose(call.ret.val) = Ok(call.ret.val)

\* the strict screening accepted an input that it had to trim and that is
\* more than white space
StrictImpliesLooseWitness ==
    /\ StrictAccepted
    /\ call.ret.val # lib_args.input
    /\ call.ret.val # <<>>

----------------------------------------------------------------------------
(* The saved result of the shell action's Execute *)

\* the last call was an Execute of a shell action that has a save key
ShellExecutedWithSave ==
    /\ action.module = "shell"
    /\ call.op = "dispatch"
    /\ call.request_type = "Execute"
    /\ action.save # None

\* the command ran and both decisions could be taken
ShellDecided ==
    /\ ShellRan
    /\ Evaluates(action.failed_when)
    /\ Evaluates(action.changed_when)

\* the variables the host had, with the result of the command under the key
WithSavedResult ==
    Mapping([k \in DOMAIN old.variables.m \cup {action.save[1]} |->
                IF k = action.save[1]
                THEN Mapping(("rc" :> Scalar(call.outcome.rc))
                                @@ ("out" :> Scalar(call.outcome.out)))
                ELSE old.variables.m[k]])

\* C35: in shell Execute with a save key, the result is written to the host's
\* variables whenever the command ran and both condition evaluations returned
\* a value, also when the outcome is Failed; if running the command or
\* evaluating failed_when or changed_when returns an error, the dispatch
\* fails and the host's variables are left unchanged.
SavedUnlessError ==
    ShellExecutedWithSave =>
        IF ShellDecided
        THEN variables = WithSavedResult
        ELSE /\ ~call.ret.ok
             /\ call.ret.err.status = "Failed"
             /\ variables = old.variables

\* the command ran and ended with return code 1, the outcome is Failed with
\* the command result, and the result is among the host's variables, where
\* another result was before
SavedUnlessErrorWitness ==
    /\ ShellExecutedWithSave
    /\ ShellDecided
    /\ ~call.ret.ok
    /\ call.ret.err.command_result = RanCommandResult
    /\ call.outcome.rc = 1
    /\ variables = WithSavedResult
    /\ action.save[1] \in DOMAIN old.variables.m
    /\ variables # old.variables

----------------------------------------------------------------------------
(* The failed decision of the shell action under a failed_when *)

\* the command ran under a failed_when that can be evaluated
FailedWhenSupplied ==
    /\ ShellRan
    /\ action.failed_when # None
    /\ OnReturnCode(action.failed_when[1])

\* C36: with a failed_when condition the failed decision is the condition's
\* value alone and the return code is not consulted: a non-zero return code
\* with a condition that evaluates false yields IsExecuted or IsPassive, and
\* a zero return code with a condition that evaluates true yields Failed.
FailedWhenAloneDecides ==
    FailedWhenSupplied =>
        IF SaysOf(action.failed_when[1], call.outcome.rc)
        THEN /\ ~call.ret.ok
             /\ call.ret.err.status = "Failed"
        ELSE /\ call.ret.ok
             /\ call.ret.val.status \in {"IsExecuted", "IsPassive"}

\* C36, amended: with a failed_when condition that evaluates true the outcome
\* is Failed whatever the return code; with one that evaluates false the
\* outcome is IsExecuted or IsPassive whatever the return code, provided the
\* changed_when, if there is one, can be evaluated: if it cannot, the
\* dispatch fails with that error and carries no command result.
FailedWhenAloneDecidesIfChangedEvaluates ==
    FailedWhenSupplied =>
        IF SaysOf(action.failed_when[1], call.outcome.rc)
        THEN /\ ~call.ret.ok
             /\ call.ret.err.status = "Failed"
        ELSE IF Evaluates(action.changed_when)
        THEN /\ call.ret.ok
             /\ call.ret.val.status \in {"IsExecuted", "IsPassive"}
        ELSE /\ ~call.ret.ok
             /\ call.ret.err.status = "Failed"
             /\ call.ret.err.command_result = None

\* return code 1 under a failed_when that asks for return code 0, and the
\* outcome IsExecuted
FailedWhenAloneDecidesIfChangedEvaluatesWitness ==
    /\ FailedWhenSupplied
    /\ action.failed_when = Some([param |-> "rc", is |-> 0])
    /\ call.outcome.rc = 1
    /\ call.ret.ok
    /\ call.ret.val.status = "IsExecuted"

----------------------------------------------------------------------------
(* Modify of the copy and template actions *)

\* the call c was a Modify dispatched on a copy or template action
FileModify(c) ==
    /\ action.module \in {"copy", "template"}
    /\ c.op = "dispatch"
    /\ c.request_type = "Modify"

\* the steps that carry content to the remote end, and the local ones that
\* prepare it
ContentSteps == {"copy_file", "write_data", "read_file"}

\* the log has a step that wrote content at the remote end
ContentWritten(log) ==
    \E i \in 1..Len(log) : log[i] \in {"copy_file", "write_data"}

\* every attribute that is declared is set on the file
AllDeclaredSet(attributes, file) ==
    attributes # None =>
        /\ attributes[1].owner # None => file.owner = attributes[1].owner[1]
        /\ attributes[1].group # None => file.group = attributes[1].group[1]
        /\ attributes[1].mode # None => file.mode = attributes[1].mode[1]

\* of the attributes of the file before, only those named in changes and
\* declared differ in the file after, and those are as declared
OnlyNamedSet(attributes, changes, before, after) ==
    /\ after.content = before.content
    /\ after.owner = IF attributes # None /\ attributes[1].owner # None
                        /\ VecContains(changes, "Owner")
                     THEN attributes[1].owner[1] ELSE before.owner
    /\ after.group = IF attributes # None /\ attributes[1].group # None
                        /\ VecContains(changes, "Group")
                     THEN attributes[1].group[1] ELSE before.group
    /\ after.mode = IF attributes # None /\ attributes[1].mode # None
                       /\ VecContains(changes, "Mode")
                    THEN attributes[1].mode[1] ELSE before.mode

\* C37: in copy and template Modify the remote file content is rewritten, and
\* every declared attribute then applied through the post-write callback,
\* exactly when the requested changes contain Content; when they do not, no
\* content is written or transferred and only the attributes named in the
\* requested changes are processed.
ContentRewrittenIffRequested ==
    [][ FileModify(call') =>
          IF VecContains(call'.changes, "Content")
          THEN call'.ret.ok =>
                  /\ ContentWritten(remote_log')
                  /\ remote_log'[Len(remote_log')] = "process_all_common_file_attributes"
                  /\ remote'.file # None
                  /\ action.module = "copy"
                        => remote'.file[1].content = action.src_content
                  /\ AllDeclaredSet(action.attributes, remote'.file[1])
          ELSE /\ \A i \in 1..Len(remote_log') : remote_log'[i] \notin ContentSteps
               /\ remote_log' = <<"process_common_file_attributes">>
               /\ (remote'.file = None) = (remote.file = None)
               /\ call'.ret.ok /\ remote.file # None =>
                     OnlyNamedSet(action.attributes, call'.changes,
                                  remote.file[1], remote'.file[1])
               /\ ~call'.ret.ok => remote' = remote ]_vars

\* a Modify of a copy action that asked for the mode alone went through: the
\* mode is the declared one and the content, which is not the source's, is
\* still there
ContentRewrittenIffRequestedWitness ==
    /\ FileModify(call)
    /\ action.module = "copy"
    /\ call.changes = <<"Mode">>
    /\ call.ret.ok
    /\ action.attributes # None
    /\ remote.file[1].mode = action.attributes[1].mode[1]
    /\ remote.file[1].content # action.src_content
    /\ remote_log = <<"process_common_file_attributes">>

----------------------------------------------------------------------------
(* The order of the remote steps of the git action *)

\* the call c was a request of the given kind dispatched on a git action
GitRequest(c, request_type) ==
    /\ action.module = "git"
    /\ c.op = "dispatch"
    /\ c.request_type = request_type

\* Create: the directory, its attributes, the clone (which makes sure of the
\* directory itself), the branch
GitCreateSteps ==
    <<"create_directory", "process_all_common_file_attributes",
      "create_directory", "git clone", "git switch">>

\* Modify: the attributes, the pull for a change of branch or version, the
\* switch for a change of branch
GitModifySteps(changes) ==
    <<"process_common_file_attributes">>
       \o (IF VecContains(changes, "Branch") \/ VecContains(changes, "Version")
           THEN <<"git pull">> ELSE <<>>)
       \o (IF VecContains(changes, "Branch") THEN <<"git switch">> ELSE <<>>)

\* C38: git dispatch issues its remote steps in a fixed order.  Create runs
\* create-directory, attribute processing, clone and switch_branch in that
\* order and returns IsCreated only after all of them succeeded; Modify
\* processes the attributes first, pulls exactly when the changes contain
\* Branch or Version, and switches the branch only when they contain Branch
\* and only after the pull; Query reports NeedsCreation when the directory or
\* its .git is absent and, with update = false, never reports Version for a
\* mismatch of the remote and the local revision.
GitStepsInOrder ==
    [][ /\ GitRequest(call', "Create") =>
              /\ HasPrefix(GitCreateSteps, remote_log')
              /\ call'.ret.ok => /\ remote_log' = GitCreateSteps
                                 /\ call'.ret.val.status = "IsCreated"
              /\ ~call'.ret.ok => call'.ret.err.status = "Failed"
        /\ GitRequest(call', "Modify") =>
              /\ HasPrefix(GitModifySteps(call'.changes), remote_log')
              /\ call'.ret.ok => /\ remote_log' = GitModifySteps(call'.changes)
                                 /\ call'.ret.val.status = "IsModified"
              /\ ~call'.ret.ok => call'.ret.err.status = "Failed"
        /\ (GitRequest(call', "Query") /\ call'.ret.ok) =>
              /\ remote' = remote
              /\ (call'.ret.val.status = "NeedsCreation")
                    = (remote.file = None \/ remote.repo = None)
              /\ (~action.update /\ VecContains(call'.ret.val.changes, "Version"))
                    => remote.repo[1].version = None ]_vars

\* a Modify that asked for version and branch went through: the attributes
\* were processed, then came the pull, then the switch, and the repository
\* is on the action's branch
GitStepsInOrderWitness ==
    /\ GitRequest(call, "Modify")
    /\ VecContains(call.changes, "Version")
    /\ VecContains(call.changes, "Branch")
    /\ call.ret.ok
    /\ remote_log = <<"process_common_file_attributes", "git pull", "git switch">>
    /\ remote.repo[1].branch = action.branch

----------------------------------------------------------------------------
(* Items (tasks/logic.rs, template_items).  A task loops over the items it  *)
(* declares: none, the name of a variable that holds a list, or a list of   *)
(* texts.  A YAML sequence is [q |-> elements] and a YAML string            *)
(* [str |-> text]; before templating the text is a declared text, after it  *)
(* the text it rendered to.                                                 *)

SequenceValue(vs) == [q |-> vs]
StringValue(x)    == [str |-> x]

IsSequence(v) == "q" \in DOMAIN v
IsString(v)   == "str" \in DOMAIN v

ItemsString(x) == [ItemsString |-> x]
ItemsList(x)   == [ItemsList |-> x]

\* lines 148-150
empty_items_vector == <<Scalar(TRUE)>>

\* serde_yaml::Value::String(handle.template.string(..)?): the rendered text
\* as a string, or the failed response
AsStringValue(result) ==
    IF result.ok THEN Ok(StringValue(result.val)) ELSE result

\* Vec::push after the ? of the item: the first failure ends the loop
Pushed(item, rest) ==
    IF ~item.ok THEN item
    ELSE IF ~rest.ok THEN rest
    ELSE Ok(<<item.val>> \o rest.val)

\* lines 163-168: a string is templated, any other element is cloned
SeqItem(tm, order, seq_item) ==
    IF IsString(seq_item)
    THEN AsStringValue(string(tm, order, seq_item.str))
    ELSE Ok(seq_item)

\* a loop over the sequence that leaves out the elements that do not template
RECURSIVE template_serde_sequence_skipping(_, _, _)
template_serde_sequence_skipping(tm, order, vs) ==
    IF vs = <<>> THEN Ok(<<>>)
    ELSE IF ~SeqItem(tm, order, Head(vs)).ok
    THEN template_serde_sequence_skipping(tm, order, Tail(vs))
    ELSE Pushed(SeqItem(tm, order, Head(vs)),
                template_serde_sequence_skipping(tm, order, Tail(vs)))

\* lines 152-171
RECURSIVE template_serde_sequence(_, _, _)
template_serde_sequence(tm, order, vs) ==
    IF vs = <<>> THEN Ok(<<>>)
    ELSE Pushed(SeqItem(tm, order, Head(vs)),
                template_serde_sequence(tm, order, Tail(vs)))

\* lines 118-137: with/items names a variable
ItemsOfVariable(tm, order, x, blended) ==
    IF x \in DOMAIN blended.m
    THEN IF IsSequence(blended.m[x])
         THEN template_serde_sequence(tm, order, blended.m[x].q)
         ELSE Err(is_failed(<<"with/items variable did not resolve to a list">>))
    ELSE Err(is_failed(<<"variable not found for items: ", x>>))

\* lines 138-144: with/items is a list of texts
RECURSIVE ItemsOfList(_, _, _)
ItemsOfList(tm, order, x) ==
    IF x = <<>> THEN Ok(<<>>)
    ELSE Pushed(AsStringValue(string(tm, order, Head(x))),
                ItemsOfList(tm, order, Tail(x)))

\* lines 110-146
template_items(tm, order, items_input) ==
    IF items_input = None THEN Ok(empty_items_vector)
    ELSE IF "ItemsString" \in DOMAIN items_input[1]
    THEN ItemsOfVariable(tm, order, items_input[1].ItemsString, Blended(order))
    ELSE ItemsOfList(tm, order, items_input[1].ItemsList)

\* the task loop templates the items of the declared task once
TemplateItems ==
    /\ lib_pc = "declared"
    /\ lib_pc' = "templated"
    /\ \E order \in IterationOrders(HostAncestors(BlendDepthLimit)) :
          \E ret \in {template_items(lib_args.tm, order, lib_args.items)} :
             Record([op |-> "template_items", order |-> order, ret |-> ret])
    /\ UNCHANGED <<lib_args, action, remote, remote_log, dispatched>>
    /\ FrameNotify
    /\ FrameCache
    /\ FrameOs
    /\ FrameVars
    /\ FrameGroups
    /\ FrameWalk

\* the lists a variable can hold: strings that render, a variable that is
\* not defined, a text the strict screening rejects, elements of other kinds
ItemLists ==
    { <<>>,
      <<StringValue(Lit(<<"a">>)), Scalar(3), StringValue(Var("K"))>>,
      <<Scalar(3), StringValue(Var("nope")), StringValue(Lit(<<"a">>))>>,
      <<StringValue(Lit(<<";">>))>>,
      <<Mapping("x" :> Scalar(1)), StringValue(Lit(<<"b">>))>> }

ItemsInputs ==
    { None,
      Some(ItemsString("L")), Some(ItemsString("K")), Some(ItemsString("nope")),
      Some(ItemsList(<<>>)),
      Some(ItemsList(<<Lit(<<"a">>), Var("K")>>)),
      Some(ItemsList(<<Lit(<<"a">>), Lit(<<";">>)>>)),
      Some(ItemsList(<<Var("nope"), Lit(<<"a">>)>>)) }

\* the host of a looping task: in no group, K a scalar, L a list or not
\* there, and among the facts nothing or an L that is no list
InitItems ==
    /\ lib_args \in { [items |-> i, tm |-> m] : i \in ItemsInputs, m \in TemplateModes }
    /\ lib_pc = "declared"
    /\ action = [module |-> "none"]
    /\ remote = [file |-> None, repo |-> None, upstream |-> NoUpstream]
    /\ remote_log = <<>>
    /\ dispatched = <<>>
    /\ notified_handlers = EmptyMap
    /\ checksum_cache = EmptyMap
    /\ checksum_cache_task_id = 0
    /\ os_type = Some("Linux")
    /\ raised = {}
    /\ stored_under = EmptyMap
    /\ highest_task_id = 0
    /\ walk_stack = <<>>
    /\ walk_pc = "done"
    /\ ChainInventory
    /\ groups = {}
    /\ variables \in {Mapping("K" :> Scalar(7))}
                        \cup { Mapping("K" :> Scalar(7) @@ "L" :> SequenceValue(l)) :
                                 l \in ItemLists }
    /\ facts \in {Mapping(EmptyMap), Mapping("L" :> Scalar(1))}
    /\ call = [op |-> "new"]
    /\ old = HostState

NextItems ==
    \/ TemplateItems
    \/ /\ lib_pc = "templated"
       /\ \E checksum \in {"x"} : set_checksum_cache("/p", checksum)

SpecItems == InitItems /\ [][NextItems]_vars

\* the list that the items declaration names: the value of the variable or
\* the declared texts as strings
SourceList(items_input, blended) ==
    IF "ItemsString" \in DOMAIN items_input[1]
    THEN blended.m[items_input[1].ItemsString].q
    ELSE [i \in 1..Len(items_input[1].ItemsList) |->
            StringValue(items_input[1].ItemsList[i])]

\* the items declaration names a variable that the blended variables do not
\* have or that is no sequence
NoListNamed(items_input, blended) ==
    /\ items_input # None
    /\ "ItemsString" \in DOMAIN items_input[1]
    /\ \/ items_input[1].ItemsString \notin DOMAIN blended.m
       \/ ~IsSequence(blended.m[items_input[1].ItemsString])

\* the answer for a source list: a failure if a string of it does not
\* template, else the list with every string templated in its place
ListTemplated(ret, tm, order, source) ==
    IF \E i \in 1..Len(source) :
          IsString(source[i]) /\ ~string(tm, order, source[i].str).ok
    THEN /\ ~ret.ok
         /\ ret.err.status = "Failed"
    ELSE /\ ret.ok
         /\ Len(ret.val) = Len(source)
         /\ \A i \in 1..Len(source) :
               IF IsString(source[i])
               THEN ret.val[i] = StringValue(string(tm, order, source[i].str).val)
               ELSE ret.val[i] = source[i]

\* C39: template_items returns a one-element list for an absent items
\* declaration; a failure when items names a variable that is not in the
\* host's blended variables or whose value is not a sequence; otherwise a
\* list of the length and in the order of the source list, in which the
\* strings are templated and the other elements passed through unchanged;
\* a templating failure on any element fails the whole call.
TemplateItemsListed ==
    call.op = "template_items" =>
       IF lib_args.items = None
       THEN call.ret.ok /\ Len(call.ret.val) = 1
       ELSE IF NoListNamed(lib_args.items, Blended(call.order))
       THEN ~call.ret.ok /\ call.ret.err.status = "Failed"
       ELSE ListTemplated(call.ret, lib_args.tm, call.order,
                          SourceList(lib_args.items, Blended(call.order)))

\* the variable named holds a string, a number and a string that prints a
\* variable: the strings came back rendered, the number as it was
TemplateItemsListedWitness ==
    /\ call.op = "template_items"
    /\ lib_args.tm = "Strict"
    /\ lib_args.items = Some(ItemsString("L"))
    /\ "L" \in DOMAIN Blended(call.order).m
    /\ Blended(call.order).m["L"]
          = SequenceValue(<<StringValue(Lit(<<"a">>)), Scalar(3), StringValue(Var("K"))>>)
    /\ call.ret.ok
    /\ call.ret.val = <<StringValue(<<"a">>), Scalar(3), StringValue(<<"7">>)>>

====
